---- MODULE Spec2Model ----
(***************************************************************************)
(* A model of simplifier-ig: the input validator, the IG generator and the *)
(* ImplementationGuide resource builder, over an abstract filesystem.      *)
(*                                                                         *)
(* Text (file names, ids, configuration values, templates) is a sequence   *)
(* of one-character strings, so that lower(), strip(), replace(),          *)
(* endswith() and sorted() are computed the way Python computes them.      *)
(***************************************************************************)
EXTENDS Integers, Sequences, FiniteSets, TLC

VARIABLES input, out, res, hist

vars == <<input, out, res, hist>>

(***************************************************************************)
(* Bounds of the model.                                                    *)
(***************************************************************************)
\* pages/ holds at most this many files
MaxPages == 2
\* resources/ holds at most this many JSON files
MaxResources == 2
\* a template text of the substitution specification has at most this many fragments
MaxFragments == 4

\* runs of initialize() on one target
MaxRuns == 2

(***************************************************************************)
(* Characters and strings.                                                 *)
(***************************************************************************)
\* the printable ASCII characters in code-point order, from 32 (the double quote, the
\* backslash and the backtick, which no text of the model uses, are spelled out)
Ascii == <<" ","!","DQUOTE","#","$","%","&","'","(",")","*","+",",","-",".","/","0","1","2","3","4","5","6","7","8","9",":",";","<","=",">","?","@","A","B","C","D","E","F","G","H","I","J","K","L","M","N","O","P","Q","R","S","T","U","V","W","X","Y","Z","[","BACKSLASH","]","^","_","BACKTICK","a","b","c","d","e","f","g","h","i","j","k","l","m","n","o","p","q","r","s","t","u","v","w","x","y","z","{","|","}","~">>

CodeTable == [c \in {Ascii[i] : i \in 1..Len(Ascii)} |-> 31 + (CHOOSE i \in 1..Len(Ascii) : Ascii[i] = c)]

\* the code point of a printable ASCII character
Code(c) == CodeTable[c]

Chr(n) == Ascii[n - 31]

IsUpper(c) == Code(c) >= 65 /\ Code(c) <= 90

IsLower(c) == Code(c) >= 97 /\ Code(c) <= 122

\* str.isspace for the characters of the model
IsSpace(c) == c = " "

LowerChar(c) == IF IsUpper(c) THEN Chr(Code(c) + 32) ELSE c

UpperChar(c) == IF IsLower(c) THEN Chr(Code(c) - 32) ELSE c

\* str.lower()
StrLower(s) == [i \in 1..Len(s) |-> LowerChar(s[i])]

\* str.startswith / str.endswith
StartsWith(s, p) == Len(p) <= Len(s) /\ SubSeq(s, 1, Len(p)) = p

EndsWith(s, p) == Len(p) <= Len(s) /\ SubSeq(s, Len(s) - Len(p) + 1, Len(s)) = p

\* str.strip()
Strip(s) ==
  LET idx == {i \in 1..Len(s) : ~IsSpace(s[i])}
  IN IF idx = {} THEN <<>>
     ELSE LET lo == CHOOSE i \in idx : \A j \in idx : i <= j
              hi == CHOOSE i \in idx : \A j \in idx : j <= i
          IN SubSeq(s, lo, hi)

\* Python < on str: lexicographic by code point
RECURSIVE StrLess(_, _)
StrLess(a, b) ==
  IF b = <<>> THEN FALSE
  ELSE IF a = <<>> THEN TRUE
  ELSE IF a[1] = b[1] THEN StrLess(Tail(a), Tail(b))
  ELSE Code(a[1]) < Code(b[1])

\* str.replace(old, new): every non-overlapping occurrence, left to right
RECURSIVE Replace(_, _, _)
Replace(s, old, new) ==
  IF s = <<>> THEN <<>>
  ELSE IF StartsWith(s, old) THEN new \o Replace(SubSeq(s, Len(old) + 1, Len(s)), old, new)
  ELSE <<s[1]>> \o Replace(Tail(s), old, new)

\* str.title(): a cased character after an uncased one is upper-cased, after a cased one lower-cased
RECURSIVE TitleFrom(_, _)
TitleFrom(s, prevCased) ==
  IF s = <<>> THEN <<>>
  ELSE LET c == s[1]
           cased == IsUpper(c) \/ IsLower(c)
           d == IF ~cased THEN c ELSE IF prevCased THEN LowerChar(c) ELSE UpperChar(c)
       IN <<d>> \o TitleFrom(Tail(s), cased)

Title(s) == TitleFrom(s, FALSE)

\* pathlib's PurePath.suffix and PurePath.stem of a file name
LastDot(name) ==
  LET dots == {i \in 1..Len(name) : name[i] = "."}
  IN IF dots = {} THEN 0 ELSE CHOOSE i \in dots : \A j \in dots : j <= i

PathSuffix(name) ==
  LET i == LastDot(name)
  IN IF i > 1 /\ i < Len(name) THEN SubSeq(name, i, Len(name)) ELSE <<>>

PathStem(name) ==
  LET i == LastDot(name)
  IN IF i > 1 /\ i < Len(name) THEN SubSeq(name, 1, i - 1) ELSE name

\* sorted(): the elements of a finite set of strings in ascending order
RECURSIVE SortStrings(_)
SortStrings(S) ==
  IF S = {} THEN <<>>
  ELSE LET m == CHOOSE x \in S : \A y \in S : x = y \/ StrLess(x, y)
       IN <<m>> \o SortStrings(S \ {m})

Range(f) == {f[x] : x \in DOMAIN f}

RECURSIVE Concat(_)
Concat(ss) == IF ss = <<>> THEN <<>> ELSE ss[1] \o Concat(Tail(ss))

S_guide_yaml == <<"g","u","i","d","e",".","y","a","m","l">>
S_variables_yaml == <<"v","a","r","i","a","b","l","e","s",".","y","a","m","l">>
S_styles == <<"s","t","y","l","e","s">>
S_images == <<"i","m","a","g","e","s">>
S_Home == <<"H","o","m","e">>
S_pagetemplates == <<"p","a","g","e","t","e","m","p","l","a","t","e","s">>
S_artifacts == <<"a","r","t","i","f","a","c","t","s">>
S_examples == <<"e","x","a","m","p","l","e","s">>
S_toc_yaml == <<"t","o","c",".","y","a","m","l">>
S_index_page_md == <<"i","n","d","e","x",".","p","a","g","e",".","m","d">>
S_page_md == <<".","p","a","g","e",".","m","d">>
S_md == <<".","m","d">>
S_json == <<".","j","s","o","n">>
S_index == <<"i","n","d","e","x">>
S_dot_index == <<".","i","n","d","e","x">>
S_index_md == <<".","i","n","d","e","x",".","m","d">>
S_master_html == <<"m","a","s","t","e","r",".","h","t","m","l">>
S_settings_style == <<"s","e","t","t","i","n","g","s",".","s","t","y","l","e">>
S_style_css == <<"s","t","y","l","e",".","c","s","s">>
S_ImplementationGuide_json == <<"I","m","p","l","e","m","e","n","t","a","t","i","o","n","G","u","i","d","e",".","j","s","o","n">>
S_True == <<"T","r","u","e">>
S_False == <<"F","a","l","s","e">>
S_None == <<"N","o","n","e">>
S_Index == <<"I","n","d","e","x">>
S_Artifacts == <<"A","r","t","i","f","a","c","t","s">>
S_Examples == <<"E","x","a","m","p","l","e","s">>
S_draft == <<"d","r","a","f","t">>
S_active == <<"a","c","t","i","v","e">>
S_retired == <<"r","e","t","i","r","e","d">>
S_unknown == <<"u","n","k","n","o","w","n">>
S_codesystem_md == <<"c","o","d","e","s","y","s","t","e","m",".","m","d">>
S_structuredefinition_md == <<"s","t","r","u","c","t","u","r","e","d","e","f","i","n","i","t","i","o","n",".","m","d">>
S_valueset_md == <<"v","a","l","u","e","s","e","t",".","m","d">>
S_examples_md == <<"e","x","a","m","p","l","e","s",".","m","d">>
S_CodeSystem == <<"C","o","d","e","S","y","s","t","e","m">>
S_StructureDefinition == <<"S","t","r","u","c","t","u","r","e","D","e","f","i","n","i","t","i","o","n">>
S_ValueSet == <<"V","a","l","u","e","S","e","t">>
S_Example == <<"E","x","a","m","p","l","e">>
S_ig_var == <<"{","{","i","g","-","v","a","r",":">>
S_close == <<"}","}">>
S_file_name == <<"f","i","l","e","-","n","a","m","e">>
S_dot_url == <<".","u","r","l">>
S_Resource_id == <<"R","e","s","o","u","r","c","e",".","i","d">>
S_ImplementationGuide == <<"I","m","p","l","e","m","e","n","t","a","t","i","o","n","G","u","i","d","e">>
S_slash_ImplementationGuide_slash == <<"/">> \o S_ImplementationGuide \o <<"/">>
S_ResourceType_Resource_id == <<"R","e","s","o","u","r","c","e","T","y","p","e","/","R","e","s","o","u","r","c","e",".","i","d">>

(***************************************************************************)
(* Parsed YAML and JSON documents.  A value is a record [t, s, b, items];  *)
(* a document is [kind, m] with kind "none" (empty file), "unparsable"     *)
(* (the parser raises), "list" (a non-empty top-level list) or "map".      *)
(***************************************************************************)
VNull == [t |-> "null", s |-> <<>>, b |-> FALSE, items |-> <<>>]

VStr(s) == [t |-> "str", s |-> s, b |-> FALSE, items |-> <<>>]

VBool(b) == [t |-> "bool", s |-> <<>>, b |-> b, items |-> <<>>]

\* an ordered mapping: items is a sequence of [name, value] pairs
VMap(items) == [t |-> "map", s |-> <<>>, b |-> FALSE, items |-> items]

DocNone == [kind |-> "none", m |-> <<>>]

DocUnparsable == [kind |-> "unparsable", m |-> <<>>]

DocList == [kind |-> "list", m |-> <<>>]

DocMap(m) == [kind |-> "map", m |-> m]

\* Python truthiness of a value / of a document
Truthy(v) ==
  CASE v.t = "null" -> FALSE
    [] v.t = "str" -> v.s # <<>>
    [] v.t = "bool" -> v.b
    [] OTHER -> v.items # <<>>

DocTruthy(d) ==
  CASE d.kind = "none" -> FALSE
    [] d.kind = "list" -> TRUE
    [] OTHER -> DOMAIN d.m # {}

\* str(value)
PyStr(v) ==
  CASE v.t = "str" -> v.s
    [] v.t = "bool" -> (IF v.b THEN S_True ELSE S_False)
    [] v.t = "null" -> S_None
    [] OTHER -> <<"{", "}">>

\* dict.get(key) on a mapping document (None when the key is absent)
Get(d, key) == IF key \in DOMAIN d.m THEN d.m[key] ELSE VNull

\* "val and str(val).strip()" as a truth value
NonBlank(v) == Truthy(v) /\ Strip(PyStr(v)) # <<>>

(***************************************************************************)
(* The input folder.                                                       *)
(*   exists     the input directory exists                                 *)
(*   folders    the known sub-folders that exist as directories            *)
(*   guide      guide.yaml: [present, doc]                                 *)
(*   variables  variables.yaml: [present, doc]                             *)
(*   styles     styles/: sub-folder name -> the set of file names in it    *)
(*   pages      pages/: the files, as [path, tag], in the order in which   *)
(*              rglob yields them (path is relative to pages/)             *)
(*   resources, examples   file name -> parsed JSON document               *)
(*   templates  pagetemplates-artifacts/: file name -> text                *)
(*   images, pagetemplates   the file names directly in these folders      *)
(***************************************************************************)
REQUIRED_INPUT_FOLDERS == <<"resources", "examples", "pages", "styles", "pagetemplates-artifacts">>

OPTIONAL_INPUT_FOLDERS == <<"images", "pagetemplates">>

REQUIRED_STYLE_FILES == <<S_master_html, S_settings_style, S_style_css>>

valid_statuses == {S_draft, S_active, S_retired, S_unknown}

\* [f for f in seq if keep(f)] for a sequence of folder names
RECURSIVE MissingFrom(_, _)
MissingFrom(seq, have) ==
  IF seq = <<>> THEN <<>>
  ELSE (IF seq[1] \in have THEN <<>> ELSE <<seq[1]>>) \o MissingFrom(Tail(seq), have)

\* glob("*.ext") over a set of file names: the pattern is matched case-sensitively
Glob(names, ext) == {n \in names : EndsWith(n, ext)}

(***************************************************************************)
(* IGInputValidator.  An error or warning entry is [kind, names, value]:   *)
(* the message kind, the folder or file names it lists, and the value it   *)
(* quotes.                                                                 *)
(***************************************************************************)
Entry(kind, names, value) == [kind |-> kind, names |-> names, value |-> value]

new_validation_result ==
  [is_valid |-> FALSE, guide_name |-> <<>>, guide_title |-> <<>>, style_name |-> <<>>,
   has_images_folder |-> FALSE, custom_styles_folder |-> <<>>,
   file_counts |-> [resources |-> 0, examples |-> 0, pages |-> 0, styles |-> 0, pagetemplates |-> 0],
   counted |-> FALSE, warnings |-> <<>>, errors |-> <<>>,
   has_ig_resource_fields |-> FALSE, ig_resource_status |-> <<>>]

\* what a step of validate() did: "ok", "fail" (ValidationError, with its entry) or "raise"
\* (another exception, which validate() does not catch)
StepOk(result) == [how |-> "ok", result |-> result, error |-> Entry("", <<>>, <<>>)]

StepFail(result, entry) == [how |-> "fail", result |-> result, error |-> entry]

\* msg is the message of the exception
StepRaise(result, msg) ==
  [how |-> "raise", result |-> result, error |-> Entry("", <<>>, <<>>), msg |-> msg]

Validator_validate_input_directory(inp, result) ==
  IF ~inp.exists THEN StepFail(result, Entry("Input directory not found", <<>>, <<>>))
  ELSE StepOk(result)

\* a faulty variant: only the first missing folder is reported
Validator_validate_required_folders_first(inp, result) ==
  IF MissingFrom(REQUIRED_INPUT_FOLDERS, inp.folders) # <<>>
  THEN StepFail(result, Entry("Missing required folders in input directory",
                              <<MissingFrom(REQUIRED_INPUT_FOLDERS, inp.folders)[1]>>, <<>>))
  ELSE StepOk(result)

Validator_validate_required_folders(inp, result) ==
  LET missing == MissingFrom(REQUIRED_INPUT_FOLDERS, inp.folders)
  IN IF missing # <<>>
     THEN StepFail(result, Entry("Missing required folders in input directory", missing, <<>>))
     ELSE StepOk(result)

Validator_validate_required_files(inp, result) ==
  IF ~inp.guide.present
  THEN StepFail(result, Entry("Missing required files in input directory", <<"guide.yaml">>, <<>>))
  ELSE StepOk(result)

Validator_load_guide_config(inp, result) ==
  LET config == inp.guide.doc
  IN IF config.kind = "unparsable" THEN StepRaise(result, "load_yaml")
     ELSE IF ~DocTruthy(config) THEN StepFail(result, Entry("guide.yaml is empty", <<>>, <<>>))
     ELSE IF config.kind # "map" THEN StepRaise(result, "no attribute get")
     ELSE IF ~NonBlank(Get(config, "title"))
       THEN StepFail(result, Entry("guide.yaml is missing required field", <<"title">>, <<>>))
     ELSE IF ~NonBlank(Get(config, "url-key"))
       THEN StepFail(result, Entry("guide.yaml is missing required field", <<"url-key">>, <<>>))
     ELSE IF ~NonBlank(Get(config, "style-name"))
       THEN StepFail(result, Entry("guide.yaml is missing required field", <<"style-name">>, <<>>))
     ELSE StepOk([result EXCEPT !.guide_title = Strip(PyStr(Get(config, "title"))),
                                !.style_name = Strip(PyStr(Get(config, "style-name")))])

Validator_determine_guide_name(inp, result) ==
  StepOk([result EXCEPT !.guide_name = Strip(PyStr(Get(inp.guide.doc, "url-key")))])

Validator_load_variables_config(inp, result) ==
  IF inp.variables.present /\ inp.variables.doc.kind = "unparsable" THEN StepRaise(result, "load_yaml variables")
  ELSE StepOk(result)

Validator_check_optional_folders(inp, result) ==
  LET r1 == IF "images" \in inp.folders THEN [result EXCEPT !.has_images_folder = TRUE] ELSE result
      r2 == IF "pagetemplates" \in inp.folders /\ Glob(inp.pagetemplates, S_md) = {}
            THEN [r1 EXCEPT !.warnings = @ \o <<Entry("Optional folder is empty (no .md files found)",
                                                        <<"pagetemplates">>, <<>>)>>]
            ELSE r1
  IN StepOk(r2)

RECURSIVE MissingStyleFiles(_, _)
MissingStyleFiles(seq, have) ==
  IF seq = <<>> THEN <<>>
  ELSE (IF seq[1] \in have THEN <<>> ELSE <<seq[1]>>) \o MissingStyleFiles(Tail(seq), have)

Validator_validate_styles_structure(inp, result) ==
  LET style_name == result.style_name
  IN IF "styles" \notin inp.folders
       THEN StepFail(result, Entry("Required folder not found", <<"styles">>, <<>>))
     ELSE IF style_name = <<>>
       THEN StepFail(result, Entry("style-name not found in guide.yaml", <<>>, <<>>))
     ELSE IF style_name \notin DOMAIN inp.styles
       THEN StepFail(result, Entry("Style folder not found", <<>>, style_name))
     ELSE IF MissingStyleFiles(REQUIRED_STYLE_FILES, inp.styles[style_name]) # <<>>
       THEN StepFail([result EXCEPT !.custom_styles_folder = style_name],
                     Entry("Missing required style files", <<>>,
                           Concat(MissingStyleFiles(REQUIRED_STYLE_FILES, inp.styles[style_name]))))
     ELSE StepOk([result EXCEPT !.custom_styles_folder = style_name])

Validator_count_files(inp, result) ==
  LET counts ==
        [resources |-> IF "resources" \in inp.folders
                       THEN Cardinality(Glob(DOMAIN inp.resources, S_json)) ELSE 0,
         examples |-> IF "examples" \in inp.folders
                      THEN Cardinality(Glob(DOMAIN inp.examples, S_json)) ELSE 0,
         pages |-> IF "pages" \in inp.folders
                   THEN Cardinality({i \in 1..Len(inp.pages) :
                                       EndsWith(inp.pages[i].path[Len(inp.pages[i].path)], S_md)})
                   ELSE 0,
         styles |-> IF result.custom_styles_folder # <<>> /\ result.custom_styles_folder \in DOMAIN inp.styles
                    THEN Cardinality(inp.styles[result.custom_styles_folder]) ELSE 0,
         pagetemplates |-> IF "pagetemplates" \in inp.folders
                           THEN Cardinality(Glob(inp.pagetemplates, S_md)) ELSE 0]
  IN StepOk([result EXCEPT !.file_counts = counts, !.counted = TRUE])

\* a faulty variant: a missing or invalid IG-resource field is an error
Validator_check_ig_resource_fields_strict(inp, result) ==
  IF \A f \in {"id", "status", "fhirVersion", "canonical"} : NonBlank(Get(inp.guide.doc, f))
     /\ StrLower(Strip(PyStr(Get(inp.guide.doc, "status")))) \in valid_statuses
  THEN StepOk([result EXCEPT !.has_ig_resource_fields = TRUE,
                             !.ig_resource_status = StrLower(Strip(PyStr(Get(inp.guide.doc, "status"))))])
  ELSE StepOk([result EXCEPT !.errors = @ \o <<Entry("Missing IG resource fields", <<>>, <<>>)>>])

Validator_check_ig_resource_fields(inp, result) ==
  LET config == inp.guide.doc
      status == Get(config, "status")
      sv == StrLower(Strip(PyStr(status)))
      statusOk == NonBlank(status) /\ sv \in valid_statuses
      missing == (IF NonBlank(Get(config, "id")) THEN <<>> ELSE <<"id">>)
                 \o (IF ~NonBlank(status) THEN <<"status">>
                     ELSE IF statusOk THEN <<>> ELSE <<"status (invalid value)">>)
                 \o (IF NonBlank(Get(config, "fhirVersion")) THEN <<>> ELSE <<"fhirVersion">>)
                 \o (IF NonBlank(Get(config, "canonical")) THEN <<>> ELSE <<"canonical">>)
      r1 == IF NonBlank(status) /\ ~statusOk
            THEN [result EXCEPT !.warnings = @ \o <<Entry("Invalid status value for IG resource generation",
                                                        <<>>, sv)>>]
            ELSE result
  IN StepOk([r1 EXCEPT !.has_ig_resource_fields = (missing = <<>>),
                       !.ig_resource_status = IF statusOk THEN sv ELSE <<>>])

\* the steps of validate() in order; a step that does not return "ok" ends the chain
ValidatorStep(n, inp, result) ==
  CASE n = 1 -> Validator_validate_input_directory(inp, result)
    [] n = 2 -> Validator_validate_required_folders(inp, result)
    [] n = 3 -> Validator_validate_required_files(inp, result)
    [] n = 4 -> Validator_load_guide_config(inp, result)
    [] n = 5 -> Validator_determine_guide_name(inp, result)
    [] n = 6 -> Validator_load_variables_config(inp, result)
    [] n = 7 -> Validator_check_optional_folders(inp, result)
    [] n = 8 -> Validator_validate_styles_structure(inp, result)
    [] n = 9 -> Validator_count_files(inp, result)
    [] OTHER -> Validator_check_ig_resource_fields(inp, result)

RECURSIVE ValidatorRun(_, _, _)

ValidatorAfter(n, inp, st) ==
  IF st.how = "ok" /\ n < 10 THEN ValidatorRun(n + 1, inp, st.result) ELSE st

ValidatorRun(n, inp, result) == ValidatorAfter(n, inp, ValidatorStep(n, inp, result))

\* the end of validate(): is_valid from the errors, or the except clause for ValidationError
ValidatorReport(st) ==
  CASE st.how = "ok" ->
         [raised |-> FALSE, msg |-> "",
          report |-> [st.result EXCEPT !.is_valid = (Len(st.result.errors) = 0)]]
    [] st.how = "fail" ->
         [raised |-> FALSE, msg |-> "",
          report |-> [st.result EXCEPT !.errors = @ \o <<st.error>>, !.is_valid = FALSE]]
    [] OTHER -> [raised |-> TRUE, msg |-> st.msg, report |-> st.result]

\* validate(): [raised, report]; raised means an exception other than ValidationError escaped
Validator_validate(inp) == ValidatorReport(ValidatorRun(1, inp, new_validation_result))

(***************************************************************************)
(* IGGenerator._resolve_template_variables: re.sub over the pattern        *)
(*   \{\{ig-var:\s*([^}]+)\s*\}\}                                          *)
(* with the replacement variables.get(m.group(1).strip(), m.group(0)).     *)
(***************************************************************************)
\* the index of the first "}" of s at or after position q (0 when there is none)
FirstClose(s, q) ==
  LET cl == {i \in q..Len(s) : s[i] = "}"}
  IN IF cl = {} THEN 0 ELSE CHOOSE i \in cl : \A j \in cl : i <= j

\* re.match of the pattern at the start of s: the length of the match, 0 when there is none.
\* After the opener, [^}]+ runs to the first "}", where "}}" must stand; the group is not empty.
PatternMatchLen(s) ==
  IF ~StartsWith(s, S_ig_var) THEN 0
  ELSE LET q == Len(S_ig_var) + 1
           r == FirstClose(s, q)
       IN IF r = 0 \/ r = q THEN 0
          ELSE IF r + 1 <= Len(s) /\ s[r + 1] = "}" THEN r + 1
          ELSE 0

\* m.group(1).strip() of a match of length n at the start of s
PatternVarName(s, n) == Strip(SubSeq(s, Len(S_ig_var) + 1, n - 2))

resolve_replace(s, n, variables) ==
  LET var_name == PatternVarName(s, n)
  IN IF var_name \in DOMAIN variables THEN variables[var_name] ELSE SubSeq(s, 1, n)

RECURSIVE resolve_template_variables(_, _)
resolve_template_variables(template, variables) ==
  IF template = <<>> THEN <<>>
  ELSE LET n == PatternMatchLen(template)
       IN IF n > 0
          THEN resolve_replace(template, n, variables)
               \o resolve_template_variables(SubSeq(template, n + 1, Len(template)), variables)
          ELSE <<template[1]>> \o resolve_template_variables(Tail(template), variables)

(***************************************************************************)
(* The filesystem under the output root: the set of directories and the    *)
(* files with their contents.  A path is a sequence of names relative to   *)
(* the output root (<<>> is the output root itself).  File names are       *)
(* case-sensitive.                                                         *)
(***************************************************************************)
NoFiles == [p \in {} |-> [kind |-> "none"]]

EmptyFS == [dirs |-> {}, files |-> NoFiles]

IsPrefix(p, q) == Len(p) <= Len(q) /\ SubSeq(q, 1, Len(p)) = p

IsFile(fs, p) == p \in DOMAIN fs.files

IsDir(fs, p) == p \in fs.dirs

Exists(fs, p) == IsFile(fs, p) \/ IsDir(fs, p)

\* shutil.rmtree(p)
RmTree(fs, p) ==
  [dirs |-> {d \in fs.dirs : ~IsPrefix(p, d)},
   files |-> [f \in {g \in DOMAIN fs.files : ~IsPrefix(p, g)} |-> fs.files[f]]]

\* Path.mkdir(parents=True, exist_ok=True)
MkdirP(fs, p) == [fs EXCEPT !.dirs = @ \cup {SubSeq(p, 1, k) : k \in 0..Len(p)}]

\* the components of a path text between its separators
RECURSIVE SplitPath(_, _)
SplitPath(s, cur) ==
  IF s = <<>> THEN (IF cur = <<>> THEN <<>> ELSE <<cur>>)
  ELSE IF s[1] = "/" THEN (IF cur = <<>> THEN <<>> ELSE <<cur>>) \o SplitPath(Tail(s), <<>>)
  ELSE SplitPath(Tail(s), Append(cur, s[1]))

\* the components that pathlib gives a path text joined to a directory: the text is split
\* at its separators and the "." components are dropped; a text that starts with a
\* separator replaces the directory (the path then starts with the component "/")
PathParts(name) ==
  LET NotDot(c) == c # <<".">>
  IN (IF name # <<>> /\ name[1] = "/" THEN <<<<"/">>>> ELSE <<>>)
     \o SelectSeq(SplitPath(name, <<>>), NotDot)

\* self._output_dir / self._guide_name, relative to the output root
GuideOutputDir(guide_name) == PathParts(guide_name)

\* writing (or overwriting) the file p
WriteFile(fs, p, c) ==
  [fs EXCEPT !.files = [f \in DOMAIN fs.files \cup {p} |-> IF f = p THEN c ELSE fs.files[f]]]

\* the names of the entries of directory d
ChildFiles(fs, d) == {f[Len(f)] : f \in {g \in DOMAIN fs.files : Len(g) = Len(d) + 1 /\ IsPrefix(d, g)}}

ChildDirs(fs, d) == {f[Len(f)] : f \in {g \in fs.dirs : Len(g) = Len(d) + 1 /\ IsPrefix(d, g)}}

\* the part of the filesystem at and under p, with the paths relative to p
SubTree(fs, p) ==
  [dirs |-> {SubSeq(d, Len(p) + 1, Len(d)) : d \in {e \in fs.dirs : IsPrefix(p, e)}},
   files |-> [f \in {SubSeq(g, Len(p) + 1, Len(g)) : g \in {h \in DOMAIN fs.files : IsPrefix(p, h)}}
                |-> fs.files[p \o f]]]

\* the copy of a set of files of one input folder into directory d
RECURSIVE CopyFiles(_, _, _, _)
CopyFiles(fs, d, names, tag) ==
  IF names = {} THEN fs
  ELSE LET n == CHOOSE x \in names : TRUE
       IN CopyFiles(WriteFile(fs, d \o <<n>>, [kind |-> "copy", tag |-> tag]), d, names \ {n}, tag)

(***************************************************************************)
(* IGGenerator.  A step of generate() returns [how, fs, ...]: how is "ok"  *)
(* or the kind of the exception raised.                                    *)
(***************************************************************************)
new_generation_result ==
  [success |-> FALSE, output_path |-> <<>>, guide_name |-> <<>>, resource_count |-> 0,
   example_count |-> 0, page_count |-> 0, toc_files_generated |-> 0, warnings |-> <<>>]

\* _load_guide_config: [how, guide_name]; how is "ok", "GenerationError" or "Exception"
Generator_load_guide_config(inp) ==
  LET config == inp.guide.doc
      url_key == Get(config, "url-key")
  IN IF ~inp.exists \/ ~inp.guide.present \/ config.kind = "unparsable"
       THEN [how |-> "Exception", msg |-> "load_yaml", guide_name |-> <<>>]
     ELSE IF ~DocTruthy(config)
       THEN [how |-> "GenerationError", msg |-> "guide.yaml is empty or invalid", guide_name |-> <<>>]
     ELSE IF config.kind # "map"
       THEN [how |-> "Exception", msg |-> "no attribute get", guide_name |-> <<>>]
     ELSE IF ~Truthy(url_key)
       THEN [how |-> "GenerationError", msg |-> "Could not find url-key in guide.yaml", guide_name |-> <<>>]
     ELSE IF Strip(PyStr(url_key)) = <<>>
       THEN [how |-> "GenerationError", msg |-> "url-key is empty in guide.yaml", guide_name |-> <<>>]
     ELSE [how |-> "ok", msg |-> "", guide_name |-> Strip(PyStr(url_key))]

\* _load_variables_config: [how, variables]; load_yaml raises on an unparsable file
Generator_load_variables_config(inp) ==
  IF ~inp.variables.present THEN [how |-> "ok", variables |-> DocNone]
  ELSE IF inp.variables.doc.kind = "unparsable" THEN [how |-> "Exception", msg |-> "load_yaml variables", variables |-> DocNone]
  ELSE IF ~DocTruthy(inp.variables.doc) THEN [how |-> "ok", variables |-> DocNone]
  ELSE [how |-> "ok", variables |-> inp.variables.doc]

template_files ==
  <<[type |-> S_CodeSystem, file |-> S_codesystem_md],
    [type |-> S_StructureDefinition, file |-> S_structuredefinition_md],
    [type |-> S_ValueSet, file |-> S_valueset_md],
    [type |-> S_Example, file |-> S_examples_md]>>

\* _load_templates: resource type -> template text, for the template files that exist
Generator_load_templates(inp) ==
  IF "pagetemplates-artifacts" \notin inp.folders THEN [t \in {} |-> <<>>]
  ELSE [t \in {template_files[i].type : i \in {j \in 1..Len(template_files) :
                                                 template_files[j].file \in DOMAIN inp.templates}}
          |-> inp.templates[(CHOOSE e \in Range(template_files) : e.type = t).file]]

\* a faulty variant: the guide folder is kept and merged into
Generator_setup_output_directory_merge(fs, guide_name) ==
  MkdirP(MkdirP(fs, GuideOutputDir(guide_name)), GuideOutputDir(guide_name) \o <<S_Home>>)

\* _setup_output_directory: the guide folder is removed if it exists, then created with Home/
Generator_setup_output_directory(fs, guide_name) ==
  LET gdir == GuideOutputDir(guide_name)
      removed == IF Exists(fs, gdir) THEN RmTree(fs, gdir) ELSE fs
  IN MkdirP(MkdirP(removed, gdir), gdir \o <<S_Home>>)

RECURSIVE CopyStyles(_, _, _, _)
CopyStyles(fs, d, styles, left) ==
  IF left = {} THEN fs
  ELSE LET st == CHOOSE x \in left : TRUE
       IN CopyStyles(CopyFiles(MkdirP(fs, d \o <<st>>), d \o <<st>>, styles[st], "style"),
                     d, styles, left \ {st})

\* _copy_root_files: guide.yaml, variables.yaml, styles/ and images/ (to Home/images)
Generator_copy_root_files(fs, inp, guide_name) ==
  LET gdir == GuideOutputDir(guide_name)
      guide(f) == IF inp.guide.present
                  THEN WriteFile(f, gdir \o <<S_guide_yaml>>, [kind |-> "yaml", doc |-> inp.guide.doc])
                  ELSE f
      variables(f) == IF inp.variables.present
                      THEN WriteFile(f, gdir \o <<S_variables_yaml>>,
                                     [kind |-> "yaml", doc |-> inp.variables.doc])
                      ELSE f
      styles(f) == IF "styles" \in inp.folders
                   THEN CopyStyles(MkdirP(f, gdir \o <<S_styles>>), gdir \o <<S_styles>>,
                                   inp.styles, DOMAIN inp.styles)
                   ELSE f
      images(f) == IF "images" \in inp.folders
                   THEN CopyFiles(MkdirP(f, gdir \o <<S_Home, S_images>>), gdir \o <<S_Home, S_images>>,
                                  inp.images, "image")
                   ELSE f
  IN images(styles(variables(guide(fs))))

\* the path under Home/ to which _transform_pages copies the pages/ file at relative path rel
PageOutPath(rel) ==
  LET name == rel[Len(rel)]
      parent == SubSeq(rel, 1, Len(rel) - 1)
  IN IF StrLower(PathSuffix(name)) = S_md
     THEN parent \o <<StrLower(PathStem(name)) \o S_page_md>>
     ELSE rel

\* the loop of _transform_pages over the files of pages/, in rglob order
RECURSIVE TransformPagesLoop(_, _, _)
TransformPagesLoop(fs, home, items) ==
  IF items = <<>> THEN fs
  ELSE LET out_path == home \o PageOutPath(items[1].path)
           made == MkdirP(fs, SubSeq(out_path, 1, Len(out_path) - 1))
       IN TransformPagesLoop(WriteFile(made, out_path, [kind |-> "copy", tag |-> items[1].tag]),
                             home, Tail(items))

\* _transform_pages: [how, fs, file_count]
Generator_transform_pages(fs, inp, guide_name) ==
  IF "pages" \notin inp.folders
  THEN [how |-> "GenerationError", fs |-> fs, file_count |-> 0]
  ELSE [how |-> "ok", fs |-> TransformPagesLoop(fs, GuideOutputDir(guide_name) \o <<S_Home>>, inp.pages),
        file_count |-> Len(inp.pages)]

\* _copy_pagetemplates: copytree raises when Home/pagetemplates already exists
Generator_copy_pagetemplates(fs, inp, guide_name) ==
  LET output_pt == GuideOutputDir(guide_name) \o <<S_Home, S_pagetemplates>>
  IN IF "pagetemplates" \notin inp.folders THEN [how |-> "ok", fs |-> fs]
     ELSE IF Exists(fs, output_pt) THEN [how |-> "Exception", msg |-> "copytree: file exists", fs |-> fs]
     ELSE [how |-> "ok", fs |-> CopyFiles(MkdirP(fs, output_pt), output_pt, inp.pagetemplates, "pagetemplate")]

\* _parse_fhir_resource: [ok, resourceType, id, filename, url, typed]; ok is FALSE for None.
\* typed tells whether resourceType is a JSON string.
NoInfo == [ok |-> FALSE, resourceType |-> <<>>, id |-> <<>>, filename |-> <<>>, url |-> <<>>, typed |-> TRUE]

\* a faulty variant: a document without id is kept
Generator_parse_fhir_resource_no_id_check(name, doc) ==
  IF StrLower(PathSuffix(name)) # S_json \/ doc.kind # "map" \/ ~Truthy(Get(doc, "resourceType"))
  THEN NoInfo
  ELSE [ok |-> TRUE, resourceType |-> PyStr(Get(doc, "resourceType")), id |-> PyStr(Get(doc, "id")),
        filename |-> PathStem(name),
        url |-> IF Get(doc, "url").t = "str" THEN Get(doc, "url").s ELSE <<>>,
        typed |-> Get(doc, "resourceType").t = "str"]

Generator_parse_fhir_resource(name, doc) ==
  LET rt == Get(doc, "resourceType")
      rid == Get(doc, "id")
      url == Get(doc, "url")
  IN IF StrLower(PathSuffix(name)) # S_json THEN NoInfo
     ELSE IF doc.kind # "map" THEN NoInfo
     ELSE IF ~Truthy(rt) \/ ~Truthy(rid) THEN NoInfo
     ELSE [ok |-> TRUE, resourceType |-> PyStr(rt), id |-> PyStr(rid), filename |-> PathStem(name),
           url |-> IF url.t = "str" THEN url.s ELSE <<>>,
           typed |-> rt.t = "str"]

\* the infos of the files of one folder, in sorted file order, None results dropped
RECURSIVE ParseAll(_, _)
ParseAll(names, docs) ==
  IF names = <<>> THEN <<>>
  ELSE LET info == Generator_parse_fhir_resource(names[1], docs[names[1]])
       IN (IF info.ok THEN <<info>> ELSE <<>>) \o ParseAll(Tail(names), docs)

ResourcesOfType(infos, type) ==
  LET Test(i) == i.resourceType = type
  IN SelectSeq(infos, Test)

ResourceTypes(infos) == {infos[i].resourceType : i \in 1..Len(infos)}

ArtifactsIndexText == [kind |-> "artifacts-index"]

ResourcePageContent(templates, type, info) ==
  LET template == IF type \in DOMAIN templates THEN templates[type] ELSE <<>>
      variables == [k \in {S_file_name, type \o S_dot_url} |->
                      IF k = S_file_name THEN info.id ELSE info.url]
  IN IF template # <<>>
     THEN [kind |-> "text", text |-> resolve_template_variables(template, variables)]
     ELSE [kind |-> "fallback", id |-> info.id, type |-> type, example |-> FALSE]

ExamplePageContent(templates, info) ==
  LET template == IF S_Example \in DOMAIN templates THEN templates[S_Example] ELSE <<>>
      variables == [k \in {S_file_name, S_Resource_id, S_ResourceType_Resource_id} |->
                      IF k = S_ResourceType_Resource_id
                      THEN info.resourceType \o <<"/">> \o info.id ELSE info.id]
  IN IF template # <<>>
     THEN [kind |-> "text", text |-> resolve_template_variables(template, variables)]
     ELSE [kind |-> "fallback", id |-> info.id, type |-> info.resourceType, example |-> TRUE]

\* the pages of one resource type, written in list order
RECURSIVE WriteResourcePages(_, _, _, _, _)
WriteResourcePages(fs, type_dir, templates, type, infos) ==
  IF infos = <<>> THEN fs
  ELSE WriteResourcePages(
         WriteFile(fs, type_dir \o <<infos[1].id \o S_page_md>>,
                   ResourcePageContent(templates, type, infos[1])),
         type_dir, templates, type, Tail(infos))

\* for resource_type in sorted(resources_by_type): mkdir and write its pages
RECURSIVE WriteTypes(_, _, _, _, _)
WriteTypes(fs, artifacts_dir, templates, types, infos) ==
  IF types = <<>> THEN fs
  ELSE LET type_dir == artifacts_dir \o <<StrLower(types[1])>>
       IN WriteTypes(
            WriteResourcePages(MkdirP(fs, type_dir), type_dir, templates, types[1],
                               ResourcesOfType(infos, types[1])),
            artifacts_dir, templates, Tail(types), infos)

RECURSIVE WriteExamplePages(_, _, _, _)
WriteExamplePages(fs, ex_dir, templates, infos) ==
  IF infos = <<>> THEN fs
  ELSE WriteExamplePages(
         WriteFile(fs, ex_dir \o <<infos[1].id \o S_page_md>>, ExamplePageContent(templates, infos[1])),
         ex_dir, templates, Tail(infos))

\* the resource and example infos that _generate_artifacts collects
Generator_resource_infos(inp) ==
  IF "resources" \in inp.folders
  THEN ParseAll(SortStrings(Glob(DOMAIN inp.resources, S_json)), inp.resources) ELSE <<>>

Generator_example_infos(inp) ==
  IF "examples" \in inp.folders
  THEN ParseAll(SortStrings(Glob(DOMAIN inp.examples, S_json)), inp.examples) ELSE <<>>

\* _generate_artifacts: [how, fs, resources, examples].  A resourceType that is not a string
\* has no lower(): the loop over the types raises before any page is written.
Generator_generate_artifacts(fs, inp, templates, guide_name) ==
  LET artifacts_dir == GuideOutputDir(guide_name) \o <<S_Home, S_artifacts>>
      index(f) == WriteFile(MkdirP(f, artifacts_dir), artifacts_dir \o <<S_index_page_md>>,
                            ArtifactsIndexText)
      types(f, resources) ==
        WriteTypes(f, artifacts_dir, templates, SortStrings(ResourceTypes(resources)), resources)
      example_pages(f, examples) ==
        IF "examples" \in inp.folders
        THEN WriteExamplePages(MkdirP(f, artifacts_dir \o <<S_examples>>),
                               artifacts_dir \o <<S_examples>>, templates, examples)
        ELSE f
      pages(resources, examples) ==
        IF \E i \in 1..Len(resources) : ~resources[i].typed
        THEN [how |-> "Exception", msg |-> "no attribute lower", fs |-> index(fs),
              resources |-> <<>>, examples |-> <<>>]
        ELSE [how |-> "ok", fs |-> example_pages(types(index(fs), resources), examples),
              resources |-> resources, examples |-> examples]
  IN pages(Generator_resource_infos(inp), Generator_example_infos(inp))

\* the loop of _copy_artifact_index_pages over sorted(glob("*.index.md"))
RECURSIVE CopyIndexLoop(_, _, _, _)
CopyIndexLoop(fs, artifacts_dir, names, templates) ==
  IF names = <<>> THEN fs
  ELSE LET resource_type == Replace(PathStem(names[1]), S_dot_index, <<>>)
           target_dir == artifacts_dir \o <<resource_type>>
       IN CopyIndexLoop(
            WriteFile(MkdirP(fs, target_dir), target_dir \o <<S_index_page_md>>,
                      [kind |-> "text", text |-> templates[names[1]]]),
            artifacts_dir, Tail(names), templates)

\* _copy_artifact_index_pages: [fs, index_pages]; index_pages is the set of keys recorded
Generator_copy_artifact_index_pages(fs, inp, guide_name) ==
  LET copy(names) ==
        [fs |-> CopyIndexLoop(fs, GuideOutputDir(guide_name) \o <<S_Home, S_artifacts>>, names, inp.templates),
         index_pages |-> {Replace(PathStem(names[i]), S_dot_index, <<>>) : i \in 1..Len(names)}]
  IN IF "pagetemplates-artifacts" \notin inp.folders THEN [fs |-> fs, index_pages |-> {}]
     ELSE copy(SortStrings(Glob(DOMAIN inp.templates, S_index_md)))

(***************************************************************************)
(* Tables of contents.  A TOC file holds a sequence of [name, filename].   *)
(***************************************************************************)
TocEntry(name, filename) == [name |-> name, filename |-> filename]

TocFile(entries) == [kind |-> "toc", entries |-> entries]

\* a faulty variant: the sub-directories whose name starts with "_" are listed too
Generator_generate_toc_for_directory_hidden(fs, directory) ==
  LET files == {n \in ChildFiles(fs, directory) :
                  n # S_toc_yaml /\ n # S_pagetemplates /\ EndsWith(n, S_page_md)}
      dirs == {n \in ChildDirs(fs, directory) :
                 n # S_toc_yaml /\ n # S_pagetemplates /\ ~StartsWith(n, <<".">>)}
      isIndex(n) == StrLower(n) = S_index_page_md
      fileEntry(n) ==
        LET stem == Replace(n, S_page_md, <<>>)
        IN TocEntry(IF StrLower(stem) = S_index THEN S_Index
                    ELSE Title(Replace(stem, <<"-">>, <<" ">>)), n)
      dirEntry(n) ==
        TocEntry(IF StrLower(n) = S_artifacts THEN S_Artifacts
                 ELSE Title(Replace(n, <<"-">>, <<" ">>)), n)
      entries(sortedFiles, sortedDirs) ==
        [i \in 1..Len(sortedFiles) |-> fileEntry(sortedFiles[i])]
        \o [i \in 1..Len(sortedDirs) |-> dirEntry(sortedDirs[i])]
  IN entries(SortStrings({n \in files : isIndex(n)}) \o SortStrings({n \in files : ~isIndex(n)}),
             SortStrings(dirs))

\* _generate_toc_for_directory: the page files (index first, then by name), then the
\* visible sub-directories by name
Generator_generate_toc_for_directory(fs, directory) ==
  LET files == {n \in ChildFiles(fs, directory) :
                  n # S_toc_yaml /\ n # S_pagetemplates /\ EndsWith(n, S_page_md)}
      dirs == {n \in ChildDirs(fs, directory) :
                 n # S_toc_yaml /\ n # S_pagetemplates /\ ~StartsWith(n, <<".">>) /\ ~StartsWith(n, <<"_">>)}
      isIndex(n) == StrLower(n) = S_index_page_md
      fileEntry(n) ==
        LET stem == Replace(n, S_page_md, <<>>)
        IN TocEntry(IF StrLower(stem) = S_index THEN S_Index
                    ELSE Title(Replace(stem, <<"-">>, <<" ">>)), n)
      dirEntry(n) ==
        TocEntry(IF StrLower(n) = S_artifacts THEN S_Artifacts
                 ELSE Title(Replace(n, <<"-">>, <<" ">>)), n)
      entries(sortedFiles, sortedDirs) ==
        [i \in 1..Len(sortedFiles) |-> fileEntry(sortedFiles[i])]
        \o [i \in 1..Len(sortedDirs) |-> dirEntry(sortedDirs[i])]
  IN entries(SortStrings({n \in files : isIndex(n)}) \o SortStrings({n \in files : ~isIndex(n)}),
             SortStrings(dirs))

\* the entries that the menu mapping of guide.yaml yields, in menu order
RECURSIVE MenuEntries(_, _, _)
MenuEntries(fs, home_dir, items) ==
  IF items = <<>> THEN <<>>
  ELSE LET display_name == items[1].name
           value == items[1].value
           folder_name == StrLower(display_name)
           page_name == Replace(value.s, S_md, S_page_md)
           entry ==
             IF value.t = "bool" /\ value.b
             THEN (IF IsDir(fs, home_dir \o PathParts(folder_name))
                   THEN <<TocEntry(display_name, folder_name)>> ELSE <<>>)
             ELSE IF value.t = "str"
             THEN (IF EndsWith(StrLower(value.s), S_md)
                   THEN (IF IsFile(fs, home_dir \o PathParts(page_name))
                         THEN <<TocEntry(display_name, page_name)>> ELSE <<>>)
                   ELSE (IF IsDir(fs, home_dir \o PathParts(value.s))
                         THEN <<TocEntry(display_name, value.s)>> ELSE <<>>))
             ELSE <<>>
       IN entry \o MenuEntries(fs, home_dir, Tail(items))

\* a faulty variant: every menu item with a text value is listed, whether or not the
\* page or folder exists
Generator_generate_home_toc_unchecked(fs, config, guide_name) ==
  LET home_dir == GuideOutputDir(guide_name) \o <<S_Home>>
      menu == Get(config, "menu")
      Text(item) == item.value.t = "str"
      listed == SelectSeq(menu.items, Text)
  IN IF menu.t = "map"
     THEN WriteFile(fs, home_dir \o <<S_toc_yaml>>,
                    TocFile([i \in 1..Len(listed) |->
                               TocEntry(listed[i].name,
                                        Replace(listed[i].value.s, S_md, S_page_md))]))
     ELSE IF Generator_generate_toc_for_directory(fs, home_dir) # <<>>
     THEN WriteFile(fs, home_dir \o <<S_toc_yaml>>,
                    TocFile(Generator_generate_toc_for_directory(fs, home_dir)))
     ELSE fs

\* _generate_home_toc: Home/toc.yaml from the menu, or derived from the directory
Generator_generate_home_toc(fs, config, guide_name) ==
  LET home_dir == GuideOutputDir(guide_name) \o <<S_Home>>
      menu == Get(config, "menu")
      write(entries) ==
        IF entries # <<>> THEN WriteFile(fs, home_dir \o <<S_toc_yaml>>, TocFile(entries)) ELSE fs
  IN write(IF menu.t = "map" THEN MenuEntries(fs, home_dir, menu.items)
           ELSE Generator_generate_toc_for_directory(fs, home_dir))

\* the directories below Home/ that the loop of _generate_toc_files gives a toc.yaml when their
\* derived TOC is not empty
TocDirectories(fs, guide_name) ==
  LET home_dir == GuideOutputDir(guide_name) \o <<S_Home>>
      artifacts_path == home_dir \o <<S_artifacts>>
  IN {d \in fs.dirs : /\ IsPrefix(home_dir, d) /\ d # home_dir
                      /\ d[Len(d)] # S_pagetemplates
                      /\ ~IsPrefix(artifacts_path, d)
                      /\ Generator_generate_toc_for_directory(fs, d) # <<>>}

RECURSIVE WriteDirTocs(_, _, _)
WriteDirTocs(fs, base, left) ==
  IF left = {} THEN fs
  ELSE LET d == CHOOSE x \in left : TRUE
       IN WriteDirTocs(WriteFile(fs, d \o <<S_toc_yaml>>,
                                 TocFile(Generator_generate_toc_for_directory(base, d))),
                       base, left \ {d})

\* _generate_toc_files: [fs, toc_count]
Generator_generate_toc_files(fs, config, guide_name) ==
  LET root(f) == WriteFile(f, GuideOutputDir(guide_name) \o <<S_toc_yaml>>, TocFile(<<TocEntry(S_Home, S_Home)>>))
      subdirs(f, ds) == [fs |-> WriteDirTocs(f, f, ds), toc_count |-> 2 + Cardinality(ds)]
      walk(f) == subdirs(f, TocDirectories(f, guide_name))
  IN walk(Generator_generate_home_toc(root(fs), config, guide_name))

\* sorted(resources, key=lambda r: r["id"]): stable, ascending by id
RECURSIVE InsertById(_, _)
InsertById(x, sorted) ==
  IF sorted = <<>> THEN <<x>>
  ELSE IF StrLess(x.id, sorted[1].id) THEN <<x>> \o sorted
  ELSE <<sorted[1]>> \o InsertById(x, Tail(sorted))

RECURSIVE SortById(_)
SortById(infos) ==
  IF infos = <<>> THEN <<>>
  ELSE InsertById(infos[Len(infos)], SortById(SubSeq(infos, 1, Len(infos) - 1)))

\* a faulty variant: the resources are listed in file order
ArtifactFolderToc_unsorted(infos, hasIndex) ==
  (IF hasIndex THEN <<TocEntry(S_Index, S_index_page_md)>> ELSE <<>>)
  \o [i \in 1..Len(infos) |-> TocEntry(infos[i].id, infos[i].id \o S_page_md)]

\* the toc.yaml of one artifact folder: Index when a custom index is recorded, then the ids
ArtifactFolderToc(infos, hasIndex) ==
  LET entries(sorted) ==
        (IF hasIndex THEN <<TocEntry(S_Index, S_index_page_md)>> ELSE <<>>)
        \o [i \in 1..Len(sorted) |-> TocEntry(sorted[i].id, sorted[i].id \o S_page_md)]
  IN entries(SortById(infos))

RECURSIVE WriteTypeTocs(_, _, _, _, _)
WriteTypeTocs(fs, artifacts_dir, types, resources, index_pages) ==
  IF types = <<>> THEN fs
  ELSE WriteTypeTocs(
         WriteFile(fs, artifacts_dir \o <<StrLower(types[1]), S_toc_yaml>>,
                   TocFile(ArtifactFolderToc(ResourcesOfType(resources, types[1]),
                                             StrLower(types[1]) \in index_pages))),
         artifacts_dir, Tail(types), resources, index_pages)

\* _generate_artifacts_toc
Generator_generate_artifacts_toc(fs, resources, examples, index_pages, guide_name) ==
  LET artifacts_dir == GuideOutputDir(guide_name) \o <<S_Home, S_artifacts>>
      artifacts_toc(types) ==
        (IF IsFile(fs, artifacts_dir \o <<S_index_page_md>>)
         THEN <<TocEntry(S_Index, S_index_page_md)>> ELSE <<>>)
        \o [i \in 1..Len(types) |-> TocEntry(types[i], StrLower(types[i]))]
        \o (IF examples # <<>> THEN <<TocEntry(S_Examples, S_examples)>> ELSE <<>>)
      examples_toc(f) ==
        IF examples # <<>>
        THEN WriteFile(f, artifacts_dir \o <<S_examples, S_toc_yaml>>,
                       TocFile(ArtifactFolderToc(examples, S_examples \in index_pages)))
        ELSE f
      write(types) ==
        examples_toc(WriteTypeTocs(WriteFile(fs, artifacts_dir \o <<S_toc_yaml>>,
                                             TocFile(artifacts_toc(types))),
                                   artifacts_dir, types, resources, index_pages))
  IN write(SortStrings(ResourceTypes(resources)))

(***************************************************************************)
(* IGGenerator.generate: [fs, raised, error, result].  raised means that   *)
(* GenerationError left generate(); error is [msg, errors, wrapped]:       *)
(* wrapped marks "Unexpected error during generation: ..." around another  *)
(* exception.  fs is the filesystem under the output root afterwards.      *)
(***************************************************************************)
GenError(msg, errors, wrapped) ==
  [msg |-> msg, errors |-> errors, wrapped |-> wrapped, cause |-> ""]

\* GenerationError(f"Unexpected error during generation: {e}"): cause is the message of e
GenWrapped(cause) ==
  [msg |-> "Unexpected error during generation", errors |-> <<>>, wrapped |-> TRUE, cause |-> cause]

NoGenError == GenError("", <<>>, FALSE)

GenRaise(fs, err, result) == [fs |-> fs, raised |-> TRUE, error |-> err, result |-> result]

\* step 10 of generate(): the artifact TOCs, then the successful result
Generate_artifacts_toc_step(art, idx, toc, guide_name, result) ==
  [fs |-> Generator_generate_artifacts_toc(toc.fs, art.resources, art.examples,
                                           idx.index_pages, guide_name),
   raised |-> FALSE, error |-> NoGenError,
   result |-> [result EXCEPT !.resource_count = Len(art.resources),
                             !.example_count = Len(art.examples),
                             !.toc_files_generated = toc.toc_count,
                             !.success = TRUE]]

\* step 9 of generate(): the TOC files of the page tree
Generate_toc_step(art, idx, inp, guide_name, result) ==
  Generate_artifacts_toc_step(art, idx, Generator_generate_toc_files(idx.fs, inp.guide.doc, guide_name),
                              guide_name, result)

\* step 8 of generate(): the custom artifact index pages; an exception of step 7 is wrapped
Generate_index_pages_step(art, inp, guide_name, result) ==
  IF art.how # "ok"
  THEN GenRaise(art.fs, GenWrapped(art.msg), result)
  ELSE Generate_toc_step(art, Generator_copy_artifact_index_pages(art.fs, inp, guide_name),
                         inp, guide_name, result)

\* steps 7 to 10 of generate(), after the pages and page templates are in place
GenerateArtifactsAndTocs(fs, inp, guide_name, templates, result) ==
  Generate_index_pages_step(Generator_generate_artifacts(fs, inp, templates, guide_name),
                            inp, guide_name, result)

\* after step 6 of generate(): an exception of _copy_pagetemplates is wrapped
Generate_pagetemplates_step(pt, inp, guide_name, templates, result) ==
  IF pt.how # "ok"
  THEN GenRaise(pt.fs, GenWrapped(pt.msg), result)
  ELSE GenerateArtifactsAndTocs(pt.fs, inp, guide_name, templates, result)

\* a faulty variant: the unfinished guide folder is removed when pages/ is missing
Generate_pages_step_cleaning(pg, inp, guide_name, templates, result) ==
  IF pg.how # "ok"
  THEN GenRaise(RmTree(pg.fs, GuideOutputDir(guide_name)),
                GenError("Pages directory not found", <<>>, FALSE), result)
  ELSE Generate_pagetemplates_step(Generator_copy_pagetemplates(pg.fs, inp, guide_name),
                                   inp, guide_name, templates,
                                   [result EXCEPT !.page_count = pg.file_count])

\* after step 5 of generate(): _transform_pages raises GenerationError without pages/
Generate_pages_step(pg, inp, guide_name, templates, result) ==
  IF pg.how # "ok"
  THEN GenRaise(pg.fs, GenError("Pages directory not found", <<>>, FALSE), result)
  ELSE Generate_pagetemplates_step(Generator_copy_pagetemplates(pg.fs, inp, guide_name),
                                   inp, guide_name, templates,
                                   [result EXCEPT !.page_count = pg.file_count])

\* steps 3 to 6 of generate(), after the configuration is loaded
GenerateTree(fs, inp, guide_name, templates, result) ==
  Generate_pages_step(
    Generator_transform_pages(
      Generator_copy_root_files(Generator_setup_output_directory(fs, guide_name), inp, guide_name),
      inp, guide_name),
    inp, guide_name, templates,
    [result EXCEPT !.guide_name = guide_name, !.output_path = GuideOutputDir(guide_name)])

\* a faulty variant: an exception of the configuration step ends generate() with the
\* unfinished result instead of a GenerationError
Generate_config_step_returning(cfg, var, inp, fs, result) ==
  IF cfg.how = "Exception"
    THEN [fs |-> fs, raised |-> FALSE, error |-> NoGenError, result |-> result]
  ELSE IF cfg.how # "ok"
    THEN GenRaise(fs, GenError(cfg.msg, <<>>, FALSE), result)
  ELSE IF var.how # "ok"
    THEN GenRaise(fs, GenWrapped(var.msg), result)
  ELSE GenerateTree(fs, inp, cfg.guide_name, Generator_load_templates(inp), result)

\* step 2 of generate(): the configuration files
Generate_config_step(cfg, var, inp, fs, result) ==
  IF cfg.how = "Exception"
    THEN GenRaise(fs, GenWrapped(cfg.msg), result)
  ELSE IF cfg.how # "ok"
    THEN GenRaise(fs, GenError(cfg.msg, <<>>, FALSE), result)
  ELSE IF var.how # "ok"
    THEN GenRaise(fs, GenWrapped(var.msg), result)
  ELSE GenerateTree(fs, inp, cfg.guide_name, Generator_load_templates(inp), result)

\* a faulty variant: the guide folder is removed before the validation outcome is looked at
Generate_validation_step_late(vr, inp, fs, validated) ==
  IF validated /\ (vr.raised \/ ~vr.report.is_valid)
  THEN GenRaise(RmTree(fs, GuideOutputDir(Generator_load_guide_config(inp).guide_name)),
                GenError("Input validation failed", vr.report.errors, FALSE), new_generation_result)
  ELSE Generate_config_step(
         Generator_load_guide_config(inp), Generator_load_variables_config(inp), inp, fs,
         new_generation_result)

\* step 1 of generate(): validation, unless skipped; vr is the outcome of the validator
Generate_validation_step(vr, inp, fs, validated) ==
  IF validated /\ vr.raised
    THEN GenRaise(fs, GenWrapped(vr.msg), new_generation_result)
  ELSE IF validated /\ ~vr.report.is_valid
    THEN GenRaise(fs, GenError("Input validation failed", vr.report.errors, FALSE),
                  new_generation_result)
  ELSE Generate_config_step(
         Generator_load_guide_config(inp), Generator_load_variables_config(inp), inp, fs,
         IF validated THEN [new_generation_result EXCEPT !.warnings = vr.report.warnings]
         ELSE new_generation_result)

Generator_generate(inp, fs, skip_validation) ==
  Generate_validation_step(Validator_validate(inp), inp, fs, ~skip_validation)

(***************************************************************************)
(* utils.format_title                                                      *)
(***************************************************************************)
format_title(name) ==
  IF name = <<>> THEN name
  ELSE IF StrLower(name) = S_index THEN S_Index
  ELSE Title(Replace(Replace(name, <<"-">>, <<" ">>), <<"_">>, <<" ">>))

(***************************************************************************)
(* IGResourceGenerator.  The ImplementationGuide document is a record;     *)
(* a key that the code leaves out has the value <<>>.                      *)
(***************************************************************************)
IG_FIELDS == <<"id", "status", "fhirVersion", "canonical">>

\* the entries for the fields of config that are missing or blank, in field order
RECURSIVE MissingFieldErrors(_, _, _)
MissingFieldErrors(config, fields, kind) ==
  IF fields = <<>> THEN <<>>
  ELSE (IF NonBlank(Get(config, fields[1])) THEN <<>> ELSE <<Entry(kind, <<fields[1]>>, <<>>)>>)
       \o MissingFieldErrors(config, Tail(fields), kind)

\* a faulty variant: the status is compared as written
PreflightStatusErrors_case(status_val) ==
  IF Truthy(status_val) /\ Strip(PyStr(status_val)) \notin valid_statuses
  THEN <<Entry("Invalid status value. Must be one of: draft, active, retired, unknown",
               <<>>, Strip(PyStr(status_val)))>>
  ELSE <<>>

\* the status check of the pre-flight: str(status_val).strip().lower() against the enum
PreflightStatusErrors(status_val) ==
  IF Truthy(status_val) /\ StrLower(Strip(PyStr(status_val))) \notin valid_statuses
  THEN <<Entry("Invalid status value. Must be one of: draft, active, retired, unknown",
               <<>>, StrLower(Strip(PyStr(status_val))))>>
  ELSE <<>>

PreflightResult(errors) == [ok |-> errors = <<>>, errors |-> errors]

\* validate_guide_yaml_for_ig_resource(input_dir)
IGRes_validate_guide_yaml_for_ig_resource(inp) ==
  IF ~inp.exists \/ ~inp.guide.present
    THEN PreflightResult(<<Entry("guide.yaml not found", <<>>, <<>>)>>)
  ELSE IF inp.guide.doc.kind = "unparsable"
    THEN PreflightResult(<<Entry("Error parsing guide.yaml", <<>>, <<>>)>>)
  ELSE IF ~DocTruthy(inp.guide.doc)
    THEN PreflightResult(<<Entry("guide.yaml is empty or invalid", <<>>, <<>>)>>)
  ELSE IF inp.guide.doc.kind # "map"
    THEN PreflightResult(<<Entry("Error parsing guide.yaml", <<>>, <<>>)>>)
  ELSE PreflightResult(
         MissingFieldErrors(inp.guide.doc, IG_FIELDS,
                            "guide.yaml is missing required field for IG resource generation")
         \o PreflightStatusErrors(Get(inp.guide.doc, "status")))

\* str(val).strip() when "val and str(val).strip()" holds, else the key is left out
ConfigValue(config, field) ==
  IF NonBlank(Get(config, field)) THEN Strip(PyStr(Get(config, field))) ELSE <<>>

NoConfig ==
  [id |-> <<>>, status |-> <<>>, fhirVersion |-> <<>>, canonical |-> <<>>,
   version |-> <<>>, title |-> <<>>]

LoadedConfig(errors, config) == [errors |-> errors, config |-> config]

\* the header that _load_config puts before the field errors
WithHeader(errors) ==
  IF errors = <<>> THEN errors
  ELSE <<Entry("IG resource generation requires additional fields in guide.yaml", <<>>, <<>>)>>
       \o errors

\* _load_config on the guide.yaml of the guide output directory: [errors, config]
IGRes_load_config(fs, gdir) ==
  IF ~IsFile(fs, gdir \o <<S_guide_yaml>>)
    THEN LoadedConfig(<<Entry("guide.yaml not found in output directory", <<>>, <<>>)>>, NoConfig)
  ELSE IF fs.files[gdir \o <<S_guide_yaml>>].doc.kind = "unparsable"
    THEN LoadedConfig(<<Entry("Error reading guide.yaml", <<>>, <<>>)>>, NoConfig)
  ELSE IF ~DocTruthy(fs.files[gdir \o <<S_guide_yaml>>].doc)
    THEN LoadedConfig(<<Entry("guide.yaml is empty or invalid", <<>>, <<>>)>>, NoConfig)
  ELSE IF fs.files[gdir \o <<S_guide_yaml>>].doc.kind # "map"
    THEN LoadedConfig(<<Entry("Error reading guide.yaml", <<>>, <<>>)>>, NoConfig)
  ELSE LoadedConfig(
         WithHeader(MissingFieldErrors(fs.files[gdir \o <<S_guide_yaml>>].doc, IG_FIELDS,
                                       "Missing required field in guide.yaml")),
         [id |-> ConfigValue(fs.files[gdir \o <<S_guide_yaml>>].doc, "id"),
          status |-> StrLower(ConfigValue(fs.files[gdir \o <<S_guide_yaml>>].doc, "status")),
          fhirVersion |-> ConfigValue(fs.files[gdir \o <<S_guide_yaml>>].doc, "fhirVersion"),
          canonical |-> ConfigValue(fs.files[gdir \o <<S_guide_yaml>>].doc, "canonical"),
          version |-> ConfigValue(fs.files[gdir \o <<S_guide_yaml>>].doc, "version"),
          title |-> ConfigValue(fs.files[gdir \o <<S_guide_yaml>>].doc, "title")])

PageNode(nameUrl, title, generation, children) ==
  [nameUrl |-> nameUrl, title |-> title, generation |-> generation, children |-> children]

\* a faulty variant: the sub-directories whose names start with "_" are pages too
RECURSIVE IGRes_build_page_structure_all(_, _, _)
IGRes_build_page_structure_all(fs, directory, relative_path) ==
  LET files == {n \in ChildFiles(fs, directory) : EndsWith(n, S_page_md)}
      subdirs == {n \in ChildDirs(fs, directory) :
                    ~StartsWith(n, <<".">>) /\ n # S_pagetemplates}
      isIndex(n) == StrLower(n) = S_index_page_md
      fileNode(n) == PageNode(relative_path \o <<"/">> \o n,
                              format_title(Replace(n, S_page_md, <<>>)), "markdown", <<>>)
      node(sortedFiles, sortedDirs) ==
        PageNode(relative_path, format_title(directory[Len(directory)]), "generated",
                 [i \in 1..Len(sortedFiles) |-> fileNode(sortedFiles[i])]
                 \o [i \in 1..Len(sortedDirs) |->
                       IGRes_build_page_structure_all(fs, directory \o <<sortedDirs[i]>>,
                                                      relative_path \o <<"/">> \o sortedDirs[i])])
  IN node(SortStrings({n \in files : isIndex(n)}) \o SortStrings({n \in files : ~isIndex(n)}),
          SortStrings(subdirs))

\* _build_page_structure: the node of a directory, its .page.md files (index first, then by
\* name), then the nodes of its visible sub-directories by name
RECURSIVE IGRes_build_page_structure(_, _, _)
IGRes_build_page_structure(fs, directory, relative_path) ==
  LET files == {n \in ChildFiles(fs, directory) : EndsWith(n, S_page_md)}
      subdirs == {n \in ChildDirs(fs, directory) :
                    ~StartsWith(n, <<"_">>) /\ ~StartsWith(n, <<".">>) /\ n # S_pagetemplates}
      isIndex(n) == StrLower(n) = S_index_page_md
      fileNode(n) == PageNode(relative_path \o <<"/">> \o n,
                              format_title(Replace(n, S_page_md, <<>>)), "markdown", <<>>)
      node(sortedFiles, sortedDirs) ==
        PageNode(relative_path, format_title(directory[Len(directory)]), "generated",
                 [i \in 1..Len(sortedFiles) |-> fileNode(sortedFiles[i])]
                 \o [i \in 1..Len(sortedDirs) |->
                       IGRes_build_page_structure(fs, directory \o <<sortedDirs[i]>>,
                                                  relative_path \o <<"/">> \o sortedDirs[i])])
  IN node(SortStrings({n \in files : isIndex(n)}) \o SortStrings({n \in files : ~isIndex(n)}),
          SortStrings(subdirs))

\* a faulty variant: only the root and its children are counted
IGRes_count_pages_flat(page) == 1 + Len(page.children)

\* _count_pages
RECURSIVE IGRes_count_pages(_)

RECURSIVE CountChildren(_)
CountChildren(children) ==
  IF children = <<>> THEN 0
  ELSE IGRes_count_pages(children[1]) + CountChildren(Tail(children))

IGRes_count_pages(page) == 1 + CountChildren(page.children)

\* value.get(key) on a JSON object held as a sequence of [name, value] items
ItemGet(v, key) ==
  IF \E i \in 1..Len(v.items) : v.items[i].name = key
  THEN v.items[CHOOSE i \in 1..Len(v.items) : v.items[i].name = key].value
  ELSE VNull

\* _extract_human_name and _extract_codeable_text on the values of the model (strings,
\* booleans and objects): the text of an object, else None (<<>>)
ExtractText(v) ==
  IF v.t = "str" THEN v.s
  ELSE IF v.t = "map" /\ Truthy(ItemGet(v, "text")) THEN PyStr(ItemGet(v, "text"))
  ELSE <<>>

NoEntry ==
  [ok |-> FALSE, resourceType |-> <<>>, id |-> <<>>, isExample |-> FALSE, name |-> <<>>,
   description |-> <<>>, exampleCanonical |-> <<>>, url |-> <<>>]

\* entry["name"]: the string, else the extracted name or format_title(rid)
EntryName(raw_name, rid) ==
  IF raw_name.t = "str" THEN raw_name.s
  ELSE IF raw_name.t # "null" /\ ExtractText(raw_name) # <<>> THEN ExtractText(raw_name)
  ELSE format_title(rid.s)

\* resource.get("meta", {}).get("profile", []) raises unless meta is absent or an object;
\* profiles[0] raises unless profiles is a string (the model has no lists)
MetaRaises(doc) ==
  /\ "meta" \in DOMAIN doc.m
  /\ \/ doc.m["meta"].t # "map"
     \/ /\ Truthy(ItemGet(doc.m["meta"], "profile"))
        /\ ItemGet(doc.m["meta"], "profile").t # "str"

ExampleCanonical(doc) ==
  IF "meta" \in DOMAIN doc.m /\ Truthy(ItemGet(doc.m["meta"], "profile"))
  THEN <<ItemGet(doc.m["meta"], "profile").s[1]>>
  ELSE <<>>

\* _parse_resource_file: the entry, or None (ok is FALSE) when resourceType or id is missing
\* or an exception is caught
IGRes_parse_resource_file(doc, is_example) ==
  IF doc.kind # "map" THEN NoEntry
  ELSE IF ~Truthy(Get(doc, "resourceType")) \/ ~Truthy(Get(doc, "id")) THEN NoEntry
  ELSE IF Get(doc, "name").t # "str" /\ Get(doc, "id").t # "str"
          /\ (Get(doc, "name").t = "null" \/ ExtractText(Get(doc, "name")) = <<>>)
    THEN NoEntry
  ELSE IF is_example /\ MetaRaises(doc) THEN NoEntry
  ELSE [ok |-> TRUE, resourceType |-> PyStr(Get(doc, "resourceType")), id |-> PyStr(Get(doc, "id")),
        isExample |-> is_example,
        name |-> EntryName(Get(doc, "name"), Get(doc, "id")),
        description |-> ExtractText(Get(doc, "description")),
        exampleCanonical |-> IF is_example THEN ExampleCanonical(doc) ELSE <<>>,
        url |-> IF ~is_example /\ Truthy(Get(doc, "url")) THEN PyStr(Get(doc, "url")) ELSE <<>>]

\* the entries of the files of one folder, in sorted file order, None results dropped
RECURSIVE ParseEntries(_, _, _)

KeepEntry(entry, names, docs, is_example) ==
  (IF entry.ok THEN <<entry>> ELSE <<>>) \o ParseEntries(Tail(names), docs, is_example)

ParseEntries(names, docs, is_example) ==
  IF names = <<>> THEN <<>>
  ELSE KeepEntry(IGRes_parse_resource_file(docs[names[1]], is_example), names, docs, is_example)

\* _collect_resources: the conformance resources, then the examples
IGRes_collect_resources(inp) ==
  (IF inp.exists /\ "resources" \in inp.folders
   THEN ParseEntries(SortStrings(Glob(DOMAIN inp.resources, S_json)), inp.resources, FALSE)
   ELSE <<>>)
  \o (IF inp.exists /\ "examples" \in inp.folders
      THEN ParseEntries(SortStrings(Glob(DOMAIN inp.examples, S_json)), inp.examples, TRUE)
      ELSE <<>>)

\* str.rstrip("/")
RECURSIVE RStripSlash(_)
RStripSlash(s) ==
  IF s # <<>> /\ s[Len(s)] = "/" THEN RStripSlash(SubSeq(s, 1, Len(s) - 1)) ELSE s

\* an entry of definition.resource
ResourceEntry(r) ==
  [reference |-> r.resourceType \o <<"/">> \o r.id,
   name |-> r.name,
   description |-> r.description,
   exampleCanonical |-> IF r.isExample THEN r.exampleCanonical ELSE <<>>,
   exampleBoolean |-> IF ~r.isExample THEN "false"
                      ELSE IF r.exampleCanonical = <<>> THEN "true" ELSE "absent"]

\* _page_node_to_r4: the key "page" is left out (<<>>) for a node without children
RECURSIVE IGRes_page_node_to_r4(_)
IGRes_page_node_to_r4(page) ==
  [nameUrl |-> page.nameUrl, title |-> page.title, generation |-> page.generation,
   page |-> [i \in 1..Len(page.children) |-> IGRes_page_node_to_r4(page.children[i])]]

\* _create_ig_resource_r4
IGRes_create_ig_resource_r4(cfg, resources, root_page) ==
  [kind |-> "ig",
   resourceType |-> S_ImplementationGuide,
   id |-> cfg.id,
   url |-> RStripSlash(cfg.canonical) \o S_slash_ImplementationGuide_slash \o cfg.id,
   version |-> cfg.version,
   name |-> Replace(cfg.title, <<" ">>, <<>>),
   title |-> cfg.title,
   status |-> cfg.status,
   fhirVersion |-> <<cfg.fhirVersion>>,
   packageId |-> cfg.id,
   definition |-> [resource |-> [i \in 1..Len(resources) |-> ResourceEntry(resources[i])],
                   page |-> IGRes_page_node_to_r4(root_page)]]

IGResult(success, output_path, page_count, errors) ==
  [success |-> success, output_path |-> output_path, page_count |-> page_count,
   errors |-> errors, warnings |-> <<>>]

\* steps 2 to 5 of generate(), with the page tree built
IGRes_write(fs, gdir, cfg, resources, root_page) ==
  [fs |-> WriteFile(fs, gdir \o <<S_ImplementationGuide_json>>,
                    IGRes_create_ig_resource_r4(cfg, resources, root_page)),
   result |-> IGResult(TRUE, gdir \o <<S_ImplementationGuide_json>>,
                       IGRes_count_pages(root_page), <<>>)]

\* a faulty variant: the document is written whatever _load_config reported
IGRes_after_config_write(fs, gdir, inp, has_input, loaded) ==
  IF ~IsDir(fs, gdir \o <<S_Home>>)
    THEN [fs |-> fs,
          result |-> IGResult(FALSE, <<>>, 0, <<Entry("Home directory not found", <<>>, <<>>)>>)]
  ELSE IGRes_write(fs, gdir, loaded.config,
                   IF has_input THEN IGRes_collect_resources(inp) ELSE <<>>,
                   IGRes_build_page_structure(fs, gdir \o <<S_Home>>, S_Home))

\* generate() after _load_config
IGRes_after_config(fs, gdir, inp, has_input, loaded) ==
  IF loaded.errors # <<>>
    THEN [fs |-> fs, result |-> IGResult(FALSE, <<>>, 0, loaded.errors)]
  ELSE IF ~IsDir(fs, gdir \o <<S_Home>>)
    THEN [fs |-> fs,
          result |-> IGResult(FALSE, <<>>, 0, <<Entry("Home directory not found", <<>>, <<>>)>>)]
  ELSE IGRes_write(fs, gdir, loaded.config,
                   IF has_input THEN IGRes_collect_resources(inp) ELSE <<>>,
                   IGRes_build_page_structure(fs, gdir \o <<S_Home>>, S_Home))

\* IGResourceGenerator(guide_output_dir, input_dir).generate(): [fs, result]
IGRes_generate(fs, gdir, inp, has_input) ==
  IGRes_after_config(fs, gdir, inp, has_input, IGRes_load_config(fs, gdir))

(***************************************************************************)
(* The inputs of the model.                                                *)
(***************************************************************************)
AllFolders == {"resources", "examples", "pages", "styles", "pagetemplates-artifacts", "images", "pagetemplates"}

RequiredFolders == {REQUIRED_INPUT_FOLDERS[i] : i \in 1..Len(REQUIRED_INPUT_FOLDERS)}

StyleFiles == {S_master_html, S_settings_style, S_style_css}

\* a mapping document from a set of [key, value] pairs with distinct keys
MapOf(pairs) == [k \in {q.key : q \in pairs} |-> (CHOOSE q \in pairs : q.key = k).value]

KV(key, value) == [key |-> key, value |-> value]

BaseGuidePairs ==
  {KV("title", VStr(<<"T">>)), KV("url-key", VStr(<<"g">>)), KV("style-name", VStr(<<"s">>)),
   KV("id", VStr(<<"i">>)), KV("status", VStr(S_active)), KV("fhirVersion", VStr(<<"4">>)),
   KV("canonical", VStr(<<"c">>))}

\* stands for "the key is not in the mapping" when a mapping is built
VAbsent == [t |-> "absent", s |-> <<>>, b |-> FALSE, items |-> <<>>]

\* the pairs with key k replaced by value v, or removed when v is VAbsent
WithField(pairs, k, v) ==
  {q \in pairs : q.key # k} \cup (IF v.t = "absent" THEN {} ELSE {KV(k, v)})

File(present, doc) == [present |-> present, doc |-> doc]

BaseInput ==
  [exists |-> TRUE,
   folders |-> RequiredFolders,
   guide |-> File(TRUE, DocMap(MapOf(BaseGuidePairs))),
   variables |-> File(FALSE, DocNone),
   styles |-> [n \in {<<"s">>} |-> StyleFiles],
   pages |-> <<>>,
   resources |-> NoFiles,
   examples |-> NoFiles,
   templates |-> NoFiles,
   images |-> {},
   pagetemplates |-> {}]

\* inputs that differ in which folders exist
FolderInputs ==
  {[BaseInput EXCEPT !.folders = F, !.styles = IF "styles" \in F THEN @ ELSE NoFiles,
                     !.pagetemplates = IF "pagetemplates" \in F THEN {<<"t">> \o S_md} ELSE {}]
     : F \in (SUBSET RequiredFolders) \cup {RequiredFolders \cup O : O \in SUBSET (AllFolders \ RequiredFolders)}}
  \cup {[BaseInput EXCEPT !.exists = FALSE, !.folders = {}, !.guide = File(FALSE, DocNone),
                          !.styles = NoFiles]}

\* inputs that differ in guide.yaml: the document kinds, the three required fields, the
\* four IG-resource fields, and an empty or a filled pagetemplates/ folder
StatusValues == {VAbsent, VStr(<<" ">>), VStr(<<"A","c","t","i","v","e">>),
                 VStr(<<"p","e","n","d","i","n","g">>), VStr(<<" ","d","r","a","f","t"," ">>)}

IgFieldGuides ==
  {DocMap(MapOf(WithField(WithField(WithField(WithField(BaseGuidePairs,
        "id", id), "status", st), "fhirVersion", fv), "canonical", ca)))
     : id \in {VAbsent, VStr(<<>>), VStr(<<"i">>)}, st \in StatusValues,
       fv \in {VNull, VStr(<<"4">>)}, ca \in {VStr(<<" ", " ">>), VStr(<<"c", "/">>)}}

RequiredFieldGuides ==
  {DocMap(MapOf(WithField(BaseGuidePairs, k, v)))
     : k \in {"title", "url-key", "style-name"}, v \in {VAbsent, VStr(<<" ">>), VStr(<<"x">>)}}

GuideFiles ==
  {File(FALSE, DocNone), File(TRUE, DocNone), File(TRUE, DocUnparsable), File(TRUE, DocList),
   File(TRUE, DocMap(NoFiles))}
  \cup {File(TRUE, d) : d \in IgFieldGuides \cup RequiredFieldGuides}

ConfigInputs ==
  {[BaseInput EXCEPT !.guide = g] : g \in GuideFiles}
  \cup {[BaseInput EXCEPT !.guide = File(TRUE, g), !.folders = RequiredFolders \cup {"pagetemplates"}]
          : g \in {d \in IgFieldGuides : ~NonBlank(Get(d, "id"))}}
  \cup {[BaseInput EXCEPT !.guide = g, !.folders = RequiredFolders \cup {"pagetemplates", "images"},
                          !.pagetemplates = {<<"t">> \o S_md}, !.images = {<<"i">>},
                          !.variables = v]
          : g \in {BaseInput.guide, File(TRUE, DocMap(MapOf(WithField(BaseGuidePairs, "status",
                                                      VStr(<<"p","e","n","d","i","n","g">>)))))},
            v \in {File(TRUE, DocNone), File(TRUE, DocUnparsable),
                   File(TRUE, DocMap(MapOf({KV("k", VStr(<<"v">>))})))}}

\* the files pages/ may hold: names that differ in case only, an index, a file that is
\* not Markdown, files in sub-folders, one of them with a name that starts with "_", and
\* a file with "_" inside its name
PageFiles ==
  {[path |-> <<<<"a">> \o S_md>>, tag |-> "a.md"],
   [path |-> <<<<"A">> \o S_md>>, tag |-> "A.md"],
   [path |-> <<S_index \o S_md>>, tag |-> "index.md"],
   [path |-> <<<<"b", ".", "t", "x", "t">>>>, tag |-> "b.txt"],
   [path |-> <<<<"s">>, <<"c", ".", "M", "D">>>>, tag |-> "s/c.MD"],
   [path |-> <<<<"B", "-", "x">>, S_index \o S_md>>, tag |-> "B-x/index.md"],
   [path |-> <<<<"_", "d">>, <<"e">> \o S_md>>, tag |-> "_d/e.md"],
   [path |-> <<<<"x", "_", "y">> \o S_md>>, tag |-> "x_y.md"]}

\* the sequences without repetition of at most n elements of S
NoRepetition(q) == \A i, j \in 1..Len(q) : i # j => q[i] # q[j]

RECURSIVE Arrangements(_, _)
Arrangements(S, n) ==
  IF n = 0 THEN {<<>>}
  ELSE LET shorter == Arrangements(S, n - 1)
       IN shorter \cup {r \in {Append(q, x) : q \in shorter, x \in S} : NoRepetition(r)}

MenuItem(name, value) == [name |-> name, value |-> value]

\* menu mappings of guide.yaml
Menus ==
  {VAbsent,
   VMap(<<MenuItem(S_Artifacts, VStr(S_artifacts)), MenuItem(<<"I">>, VStr(S_index \o S_md)),
          MenuItem(<<"S">>, VBool(TRUE)), MenuItem(<<"A">>, VStr(<<"a">> \o S_md)),
          MenuItem(<<"U">>, VStr(<<"A">> \o S_md))>>)}

PageInputs ==
  {[BaseInput EXCEPT !.pages = ps,
                     !.guide = File(TRUE, DocMap(MapOf(WithField(BaseGuidePairs, "menu", menu))))]
     : ps \in Arrangements(PageFiles, MaxPages), menu \in Menus}

\* the JSON documents resources/ and examples/ may hold: resources of two types, ids whose
\* order differs from the order of their page names, and documents without resourceType or id
Json(rt, id) == DocMap(MapOf(WithField(WithField({}, "resourceType", rt), "id", id)))

ResourceDocs ==
  {Json(VStr(S_ValueSet), VStr(<<"a">>)),
   Json(VStr(S_ValueSet), VStr(<<"a", "-", "b">>)),
   Json(VStr(S_CodeSystem), VStr(<<"c">>)),
   Json(VAbsent, VStr(<<"x">>)),
   Json(VStr(S_ValueSet), VNull),
   Json(VStr(<<>>), VStr(<<>>))}

ExampleDocs ==
  {Json(VStr(<<"P">>), VStr(<<"e">>)),
   Json(VStr(<<"P">>), VAbsent)}

JsonName(i) == <<Chr(48 + i)>> \o S_json

\* the folders with the files 1.json .. k.json for k <= n, each holding one of docs
JsonFolders(docs, n) ==
  UNION {[{JsonName(i) : i \in 1..k} -> docs] : k \in 0..n}

\* templates of pagetemplates-artifacts/: none, or a ValueSet template, an examples template
\* and a custom index for the value sets and for the examples
TemplateText == S_ig_var \o <<" ">> \o S_file_name \o <<" ">> \o S_close \o <<"/">>
                \o S_ig_var \o <<"n", "o">> \o S_close

TemplateFolders ==
  {NoFiles,
   [n \in {S_valueset_md, S_examples_md, <<"v","a","l","u","e","s","e","t">> \o S_index_md,
           S_examples \o S_index_md} |-> IF n \in {S_valueset_md, S_examples_md} THEN TemplateText ELSE <<"#">>]}

ArtifactInputs ==
  {[BaseInput EXCEPT !.resources = rs, !.templates = ts]
     : rs \in JsonFolders(ResourceDocs, MaxResources), ts \in TemplateFolders}
  \cup {[BaseInput EXCEPT !.resources = rs, !.examples = es, !.templates = ts]
          : rs \in JsonFolders(ResourceDocs, 1), es \in JsonFolders(ExampleDocs, 1) \ {NoFiles},
            ts \in TemplateFolders}

\* a variables.yaml that defines the variable the artifact templates name
VariableInputs ==
  {[BaseInput EXCEPT !.resources = rs, !.examples = es,
                     !.templates = CHOOSE ts \in TemplateFolders : ts # NoFiles,
                     !.variables = File(TRUE, DocMap(MapOf({KV("no", VStr(<<"v">>))})))]
     : rs \in JsonFolders({Json(VStr(S_ValueSet), VStr(<<"a">>))}, 1),
       es \in JsonFolders({Json(VStr(<<"P">>), VStr(<<"e">>))}, 1)}

\* a custom index template whose type is written as the resources write it
IndexInputs ==
  {[BaseInput EXCEPT !.resources = rs,
                     !.templates = (S_ValueSet \o S_index_md) :> <<"#">>]
     : rs \in JsonFolders({Json(VStr(S_ValueSet), VStr(<<"a">>))}, 1)}

\* a resource whose resourceType is not a string, next to an images/ folder
UntypedInputs ==
  {[BaseInput EXCEPT !.resources = rs, !.folders = RequiredFolders \cup {"images"},
                     !.images = {<<"i">>}]
     : rs \in JsonFolders({Json(VBool(TRUE), VStr(<<"a">>))}, 1) \ {NoFiles}}

\* an example whose meta is a string, one whose meta is an object with a profile, and a
\* resource whose id is a boolean
MetaDocs ==
  {DocMap(MapOf(WithField(WithField(WithField({}, "resourceType", VStr(<<"P">>)),
                                    "id", VStr(<<"e">>)), "meta", m)))
     : m \in {VStr(<<"x">>), VMap(<<[name |-> "profile", value |-> VStr(<<"p">>)]>>)}}

MetaInputs ==
  {[BaseInput EXCEPT !.examples = es] : es \in JsonFolders(MetaDocs, 1) \ {NoFiles}}
  \cup {[BaseInput EXCEPT !.resources = rs]
          : rs \in JsonFolders({Json(VStr(S_ValueSet), VBool(TRUE))}, 1) \ {NoFiles}}

\* a menu none of whose items names a page or folder of Home/
NoMatchInputs ==
  {[BaseInput EXCEPT !.pages = ps,
                     !.guide = File(TRUE, DocMap(MapOf(WithField(BaseGuidePairs, "menu",
                                   VMap(<<MenuItem(<<"N">>, VStr(<<"n">> \o S_md))>>)))))]
     : ps \in Arrangements({f \in PageFiles : f.tag \in {"a.md", "s/c.MD"}}, 1)}

\* a menu whose item names a page of a sub-directory by its path
NestedMenuInputs ==
  {[BaseInput EXCEPT !.pages = ps,
                     !.guide = File(TRUE, DocMap(MapOf(WithField(BaseGuidePairs, "menu",
                                   VMap(<<MenuItem(<<"C">>, VStr(<<"s", "/", "c">> \o S_md))>>)))))]
     : ps \in Arrangements({f \in PageFiles : f.tag = "s/c.MD"}, 1) \ {<<>>}}

Inputs ==
  FolderInputs \cup ConfigInputs \cup PageInputs \cup ArtifactInputs \cup VariableInputs
  \cup IndexInputs \cup UntypedInputs \cup MetaInputs \cup NoMatchInputs \cup NestedMenuInputs

(***************************************************************************)
(* State: input is the input folder (it does not change), out the          *)
(* filesystem under the output root, res the outcome of the last           *)
(* operation.  hist keeps, for the successful generate runs, the guide     *)
(* folder after the last two of them and the files that stood in the       *)
(* guide folder before the last one and are gone after it.                 *)
(***************************************************************************)
NoTree == [dirs |-> {<<<<"-">>>>}, files |-> NoFiles]

Init ==
  /\ input \in Inputs
  /\ out = EmptyFS
  /\ res = [op |-> "none"]
  /\ hist = [prev |-> NoTree, last |-> NoTree, dropped |-> {}]

\* simplifier-ig validate
Validate ==
  /\ res' = [op |-> "validate", outcome |-> Validator_validate(input)]
  /\ UNCHANGED <<input, out, hist>>

\* the files of the guide folder in before that are not in after
Dropped(before, after, guide_name) ==
  DOMAIN SubTree(before, GuideOutputDir(guide_name)).files \ DOMAIN SubTree(after, GuideOutputDir(guide_name)).files

\* IGGenerator(input, output).generate(skip_validation)
Generate ==
  \E skip \in BOOLEAN :
    \E g \in {Generator_generate(input, out, skip)} :
      /\ out' = g.fs
      /\ res' = [op |-> "generate", skip |-> skip, raised |-> g.raised, error |-> g.error,
                 result |-> g.result]
      /\ hist' = IF g.raised THEN hist
                 ELSE [prev |-> hist.last, last |-> SubTree(g.fs, GuideOutputDir(g.result.guide_name)),
                       dropped |-> Dropped(out, g.fs, g.result.guide_name)]
      /\ UNCHANGED input

\* IGResourceGenerator.validate_guide_yaml_for_ig_resource(input)
Preflight ==
  /\ res' = [op |-> "preflight", outcome |-> IGRes_validate_guide_yaml_for_ig_resource(input)]
  /\ UNCHANGED <<input, out, hist>>

\* the guide output directories given to IGResourceGenerator: the folders under the output
\* root or, as long as there is none, a folder that does not exist
NoGuideDir == <<<<"n", "o">>>>

GuideDirs(fs) ==
  IF \E e \in fs.dirs : Len(e) = 1 THEN {e \in fs.dirs : Len(e) = 1} ELSE {NoGuideDir}

\* IGResourceGenerator(guide_output_dir, input_dir or None).generate()
IGResourceGenerate ==
  \E d \in GuideDirs(out), has_input \in BOOLEAN :
    \E g \in {IGRes_generate(out, d, input, has_input)} :
      /\ out' = g.fs
      /\ res' = [op |-> "ig-resource", dir |-> d, has_input |-> has_input,
                 result |-> g.result]
      /\ UNCHANGED <<input, hist>>

\* something else changes a generated guide folder: it leaves a page or an
\* ImplementationGuide.json there, or empties guide.yaml
StaleFiles(d) == {d \o <<S_Home, <<"o", "l", "d">> \o S_page_md>>, d \o <<S_ImplementationGuide_json>>}

ExternalEdits(d) ==
  {[path |-> f, content |-> [kind |-> "copy", tag |-> "stale"]] : f \in StaleFiles(d)}
  \cup {[path |-> d \o <<S_guide_yaml>>, content |-> [kind |-> "yaml", doc |-> DocNone]]}

Edited(fs, d) ==
  \/ \E f \in StaleFiles(d) : IsFile(fs, f)
  \/ \E e \in ExternalEdits(d) : IsFile(fs, e.path) /\ fs.files[e.path] = e.content

ExternalWrite ==
  \E d \in {e \in out.dirs : Len(e) = 1} :
    \E e \in ExternalEdits(d) :
      /\ ~Edited(out, d)
      /\ out' = WriteFile(MkdirP(out, SubSeq(e.path, 1, Len(e.path) - 1)), e.path, e.content)
      /\ res' = [op |-> "external"]
      /\ UNCHANGED <<input, hist>>

Next == Generate \/ Preflight \/ IGResourceGenerate \/ ExternalWrite

Spec == Init /\ [][Next]_vars

\* the validator alone: it reads the input folder and changes nothing
NextValidate == Validate

SpecValidate == Init /\ [][NextValidate]_vars

(***************************************************************************)
(* Template resolution on its own: input is a template text with a         *)
(* variable set, and the one operation resolves it.                        *)
(***************************************************************************)
TemplateFragments == {S_ig_var, S_close, <<" ">>, <<"a">>, <<"b">>, <<"}">>}

RECURSIVE FragmentTexts(_)
FragmentTexts(n) ==
  IF n = 0 THEN {<<>>}
  ELSE FragmentTexts(n - 1) \cup {t \o f : t \in FragmentTexts(n - 1), f \in TemplateFragments}

VariableSets ==
  {NoFiles,
   [k \in {<<"a">>} |-> <<"X">>],
   [k \in {<<"a">>, <<"b">>} |-> IF k = <<"a">> THEN S_ig_var \o <<"b">> \o S_close ELSE <<"Y">>]}

TemplateInputs == [template : FragmentTexts(MaxFragments), variables : VariableSets]

InitTpl ==
  /\ input \in TemplateInputs
  /\ out = EmptyFS
  /\ res = [op |-> "none"]
  /\ hist = [prev |-> NoTree, last |-> NoTree, dropped |-> {}]

ResolveTemplate ==
  /\ res.op = "none"
  /\ res' = [op |-> "resolve", text |-> resolve_template_variables(input.template, input.variables)]
  /\ UNCHANGED <<input, out, hist>>

NextTpl == ResolveTemplate

SpecTpl == InitTpl /\ [][NextTpl]_vars

(***************************************************************************)
(* Properties of validate()                                                *)
(***************************************************************************)
MissingRequired(inp) == RequiredFolders \ inp.folders

\* C3: for an existing input directory with a non-empty set M of missing required folders,
\* validate() returns is_valid = false with exactly one error entry, and that entry names
\* every folder of M and no other folder
C3_MissingFoldersNamedJointly ==
  (res.op = "validate" /\ input.exists /\ MissingRequired(input) # {})
    => /\ ~res.outcome.raised
       /\ ~res.outcome.report.is_valid
       /\ Len(res.outcome.report.errors) = 1
       /\ res.outcome.report.errors[1].kind = "Missing required folders in input directory"
       /\ Range(res.outcome.report.errors[1].names) = MissingRequired(input)
       /\ NoRepetition(res.outcome.report.errors[1].names)

C3_Witness ==
  /\ res.op = "validate"
  /\ input.exists
  /\ Cardinality(MissingRequired(input)) = 3
  /\ Len(res.outcome.report.errors) = 1
  /\ Len(res.outcome.report.errors[1].names) = 3

\* the structural and configuration checks of validate(): the directory, the five folders,
\* guide.yaml with title, url-key and style-name, a readable variables.yaml, and the style
\* folder with its three files
PassesChecks(inp) ==
  /\ inp.exists
  /\ RequiredFolders \subseteq inp.folders
  /\ inp.guide.present
  /\ inp.guide.doc.kind = "map"
  /\ \A f \in {"title", "url-key", "style-name"} : NonBlank(Get(inp.guide.doc, f))
  /\ ~(inp.variables.present /\ inp.variables.doc.kind = "unparsable")
  /\ Strip(PyStr(Get(inp.guide.doc, "style-name"))) \in DOMAIN inp.styles
  /\ StyleFiles \subseteq inp.styles[Strip(PyStr(Get(inp.guide.doc, "style-name")))]

\* C4: in every report of validate() is_valid is true iff the errors list is empty, and an
\* input that passes the structural and configuration checks is valid whatever its
\* IG-resource fields are and whether or not pagetemplates/ is empty
C4_ValidIffNoErrors ==
  res.op = "validate"
    => /\ ~res.outcome.raised
          => (res.outcome.report.is_valid <=> res.outcome.report.errors = <<>>)
       /\ PassesChecks(input)
          => (~res.outcome.raised /\ res.outcome.report.is_valid)

C4_Witness ==
  /\ res.op = "validate"
  /\ PassesChecks(input)
  /\ res.outcome.report.is_valid
  /\ ~res.outcome.report.has_ig_resource_fields
  /\ Len(res.outcome.report.warnings) = 2
  /\ "pagetemplates" \in input.folders
  /\ Get(input.guide.doc, "status") = VStr(<<"p","e","n","d","i","n","g">>)

(***************************************************************************)
(* Properties of _resolve_template_variables                               *)
(***************************************************************************)
\* the length of a placeholder at the start of s, 0 when s does not start with one: the
\* opener, a name part without braces, and the closer
PlaceholderLen(s) ==
  IF ~StartsWith(s, S_ig_var) THEN 0
  ELSE LET ends == {n \in (Len(S_ig_var) + 3)..Len(s) :
                      /\ SubSeq(s, n - 1, n) = S_close
                      /\ \A i \in (Len(S_ig_var) + 1)..(n - 2) : s[i] \notin {"{", "}"}}
       IN IF ends = {} THEN 0 ELSE CHOOSE n \in ends : \A m \in ends : n <= m

RECURSIVE PlaceholdersResolved(_, _)
PlaceholdersResolved(s, variables) ==
  IF s = <<>> THEN <<>>
  ELSE LET n == PlaceholderLen(s)
           name == Strip(SubSeq(s, Len(S_ig_var) + 1, n - 2))
       IN IF n = 0 THEN <<s[1]>> \o PlaceholdersResolved(Tail(s), variables)
          ELSE (IF name \in DOMAIN variables THEN variables[name] ELSE SubSeq(s, 1, n))
               \o PlaceholdersResolved(SubSeq(s, n + 1, Len(s)), variables)

\* C6: every placeholder whose name is a key of the variable set is replaced with the value
\* of the key, every other placeholder and all text outside placeholders is unchanged
C6_EveryPlaceholderResolved ==
  res.op = "resolve" => res.text = PlaceholdersResolved(input.template, input.variables)

\* a placeholder with a known name is replaced, whitespace around the name included
C6_Witness ==
  /\ res.op = "resolve"
  /\ input.template = S_ig_var \o <<" ", "a">> \o S_close
  /\ input.variables = [k \in {<<"a">>} |-> <<"X">>]
  /\ res.text = <<"X">>

(***************************************************************************)
(* Properties of generate()                                                *)
(***************************************************************************)
\* C1: for a valid input, two runs of generate against the same output root leave the same
\* tree in the guide folder, and what stood in the guide folder before a run and is not
\* regenerated by it (a stale page, an ImplementationGuide.json, a changed guide.yaml) is
\* absent after the run
C1_RegenerationIsIdempotent ==
  PassesChecks(input)
    => /\ hist.prev # NoTree => hist.last = hist.prev
       /\ (res.op = "generate" /\ ~res.raised)
            => /\ SubTree(out, GuideOutputDir(res.result.guide_name)) = hist.last
               /\ ~Edited(out, GuideOutputDir(res.result.guide_name))
               /\ \A f \in hist.dropped : ~IsFile(out, GuideOutputDir(res.result.guide_name) \o f)

C1_Witness ==
  /\ PassesChecks(input)
  /\ res.op = "generate"
  /\ ~res.raised
  /\ hist.prev # NoTree
  /\ hist.last = hist.prev
  /\ <<S_ImplementationGuide_json>> \in hist.dropped

\* C2: when validation is not skipped and the validator reports is_valid = false, generate
\* raises GenerationError with the validator's error entries, and the output root is as it
\* was before the call
C2_InvalidInputAborts ==
  [][(/\ res'.op = "generate"
      /\ ~res'.skip
      /\ ~Validator_validate(input).raised
      /\ ~Validator_validate(input).report.is_valid)
       => /\ res'.raised
          /\ res'.error.msg = "Input validation failed"
          /\ ~res'.error.wrapped
          /\ res'.error.errors = Validator_validate(input).report.errors
          /\ res'.error.errors # <<>>
          /\ out' = out]_vars

C2_Witness ==
  /\ res.op = "generate"
  /\ ~res.skip
  /\ res.raised
  /\ res.error.msg = "Input validation failed"
  /\ hist.last # NoTree
  /\ SubTree(out, GuideOutputDir(Generator_load_guide_config(input).guide_name)) = hist.last

\* a JSON document without resourceType or id (missing, null or empty)
Deficient(doc) ==
  doc.kind # "map" \/ ~Truthy(Get(doc, "resourceType")) \/ ~Truthy(Get(doc, "id"))

CompleteFiles(folder) == [n \in {m \in DOMAIN folder : ~Deficient(folder[m])} |-> folder[n]]

\* the input without its deficient JSON files
CleanInput(inp) ==
  [inp EXCEPT !.resources = CompleteFiles(@), !.examples = CompleteFiles(@)]

\* C5: a JSON file of resources/ or examples/ without resourceType or id has no artifact page,
\* no entry in definition.resource and no part in resource_count or example_count, and the
\* pages, entries and counts of the other files are what they are without it
C5_DeficientJsonExcluded ==
  /\ hist.last # NoTree
       => hist.last = SubTree(Generator_generate(CleanInput(input), EmptyFS, TRUE).fs,
                              GuideOutputDir(Generator_load_guide_config(input).guide_name))
  /\ (res.op = "generate" /\ ~res.raised)
       => /\ res.result.resource_count = Cardinality(DOMAIN CleanInput(input).resources)
          /\ res.result.example_count = Cardinality(DOMAIN CleanInput(input).examples)
  /\ (res.op = "ig-resource" /\ res.result.success /\ res.has_input)
       => /\ out.files[res.dir \o <<S_ImplementationGuide_json>>].definition.resource
               = [i \in 1..Len(IGRes_collect_resources(CleanInput(input)))
                    |-> ResourceEntry(IGRes_collect_resources(CleanInput(input))[i])]
          /\ Len(out.files[res.dir \o <<S_ImplementationGuide_json>>].definition.resource)
               <= Cardinality(DOMAIN CleanInput(input).resources)
                  + Cardinality(DOMAIN CleanInput(input).examples)

C5_Witness ==
  /\ res.op = "ig-resource"
  /\ res.result.success
  /\ res.has_input
  /\ hist.last # NoTree
  /\ Cardinality(DOMAIN input.resources) = 2
  /\ Cardinality(DOMAIN CleanInput(input).resources) = 1
  /\ Len(out.files[res.dir \o <<S_ImplementationGuide_json>>].definition.resource) = 1
  /\ Cardinality({f \in DOMAIN hist.last.files :
                    IsPrefix(<<S_Home, S_artifacts>>, f) /\ Len(f) = 4
                    /\ f[4] \notin {S_toc_yaml, S_index_page_md}}) = 1

\* C8: after a successful generate every file of pages/ has a file with its content under
\* Home/, at the lower-cased stem with .page.md for a Markdown file and at its own name
\* otherwise, also when names of one directory differ in letter case only
C8_EveryPageFileCopied ==
  hist.last # NoTree
    => \A i \in 1..Len(input.pages) :
         /\ IsFile(hist.last, <<S_Home>> \o PageOutPath(input.pages[i].path))
         /\ hist.last.files[<<S_Home>> \o PageOutPath(input.pages[i].path)]
              = [kind |-> "copy", tag |-> input.pages[i].tag]

\* a Markdown file of a sub-folder with an upper-case extension stands under Home/ at its
\* lower-cased stem, next to the copy of a file that is not Markdown
C8_Witness ==
  /\ hist.last # NoTree
  /\ Len(input.pages) = 2
  /\ IsFile(hist.last, <<S_Home, <<"s">>, <<"c">> \o S_page_md>>)
  /\ hist.last.files[<<S_Home, <<"s">>, <<"c">> \o S_page_md>>] = [kind |-> "copy", tag |-> "s/c.MD"]
  /\ IsFile(hist.last, <<S_Home, <<"b", ".", "t", "x", "t">>>>)

(***************************************************************************)
(* Properties of the TOC files.  They are read in the guide folder that    *)
(* the last successful generate left (hist.last), whose paths are          *)
(* relative to the guide folder.                                           *)
(***************************************************************************)
TocPaths(tree) ==
  {f \in DOMAIN tree.files : f[Len(f)] = S_toc_yaml /\ tree.files[f].kind = "toc"}

ParentOf(f) == SubSeq(f, 1, Len(f) - 1)

Filenames(entries) == [i \in 1..Len(entries) |-> entries[i].filename]

EntryNames(entries) == [i \in 1..Len(entries) |-> entries[i].name]

StrictlyAscending(q) == \A i \in 1..(Len(q) - 1) : StrLess(q[i], q[i + 1])

Ascending(q) == \A i \in 1..(Len(q) - 1) : ~StrLess(q[i + 1], q[i])

\* the first k entries are files of directory d, the others its sub-directories, and both
\* parts are strictly ascending by filename
FilesThenDirectories(tree, d, q) ==
  \E k \in 0..Len(q) :
    /\ \A i \in 1..k : IsFile(tree, d \o <<q[i]>>)
    /\ \A i \in (k + 1)..Len(q) : IsDir(tree, d \o <<q[i]>>)
    /\ StrictlyAscending(SubSeq(q, 1, k))
    /\ StrictlyAscending(SubSeq(q, k + 1, Len(q)))

HasMenu(inp) == inp.guide.doc.kind = "map" /\ Get(inp.guide.doc, "menu").t = "map"

\* the TOC of d is derived from the directory: a page directory, or Home/ without a menu
DirectoryDerived(inp, d) ==
  /\ IsPrefix(<<S_Home>>, d)
  /\ ~IsPrefix(<<S_Home, S_artifacts>>, d)
  /\ d = <<S_Home>> => ~HasMenu(inp)

AfterIndex(q) == IF q # <<>> /\ StrLower(q[1]) = S_index_page_md THEN Tail(q) ELSE q

\* the statement as the specification words it: in every toc.yaml the entry of an existing
\* index.page.md is first and the other entries are strictly ascending by filename (the
\* files, then the sub-directories, in a TOC derived from the directory)
C7_IndexFirstRestByFilename ==
  hist.last # NoTree
    => \A f \in TocPaths(hist.last) :
         /\ IsFile(hist.last, ParentOf(f) \o <<S_index_page_md>>)
              => /\ hist.last.files[f].entries # <<>>
                 /\ hist.last.files[f].entries[1].filename = S_index_page_md
         /\ IF DirectoryDerived(input, ParentOf(f))
            THEN FilesThenDirectories(hist.last, ParentOf(f),
                                      AfterIndex(Filenames(hist.last.files[f].entries)))
            ELSE StrictlyAscending(AfterIndex(Filenames(hist.last.files[f].entries)))

\* the entries follow the order of the items of the menu mapping
InMenuOrder(entries, items) ==
  /\ \A i \in 1..Len(entries) : \E k \in 1..Len(items) : items[k].name = entries[i].name
  /\ \A i, j \in 1..Len(entries) :
       i < j => (CHOOSE k \in 1..Len(items) : items[k].name = entries[i].name)
                < (CHOOSE k \in 1..Len(items) : items[k].name = entries[j].name)

\* artifacts/toc.yaml: Index when artifacts/index.page.md exists, the resource types
\* strictly ascending by type name with the lower-cased name as filename, Examples last
ArtifactsOrder(tree, entries) ==
  \E a, b \in 0..1 :
    /\ a + b <= Len(entries)
    /\ a = 1 <=> IsFile(tree, <<S_Home, S_artifacts, S_index_page_md>>)
    /\ a = 1 => entries[1] = TocEntry(S_Index, S_index_page_md)
    /\ b = 1 <=> IsFile(tree, <<S_Home, S_artifacts, S_examples, S_toc_yaml>>)
    /\ b = 1 => entries[Len(entries)] = TocEntry(S_Examples, S_examples)
    /\ StrictlyAscending(EntryNames(SubSeq(entries, a + 1, Len(entries) - b)))
    /\ \A i \in (a + 1)..(Len(entries) - b) : entries[i].filename = StrLower(entries[i].name)

\* a custom index template <folder>.index.md stands in pagetemplates-artifacts/
CustomIndex(inp, folder) ==
  "pagetemplates-artifacts" \in inp.folders /\ (folder \o S_index_md) \in DOMAIN inp.templates

\* the toc.yaml of a resource-type folder or of examples/: Index first exactly when the
\* folder has a custom index, then the resources ascending by id
ArtifactFolderOrder(inp, folder, entries) ==
  \E a \in 0..1 :
    /\ a <= Len(entries)
    /\ a = 1 <=> CustomIndex(inp, folder)
    /\ a = 1 => entries[1] = TocEntry(S_Index, S_index_page_md)
    /\ Ascending(EntryNames(SubSeq(entries, a + 1, Len(entries))))
    /\ \A i \in (a + 1)..Len(entries) : entries[i].filename = entries[i].name \o S_page_md

\* C7: a TOC derived from a directory lists index.page.md first, the other page files
\* ascending by filename, then the sub-directories ascending; the Home TOC of a menu follows
\* the menu; artifacts/toc.yaml lists Index, the resource types ascending by type name and
\* Examples last; the TOC of a type folder or of examples/ lists Index first when the folder
\* has a custom index, then the resources ascending by id
C7_TocOrder ==
  hist.last # NoTree
    => \A f \in TocPaths(hist.last) :
         CASE ParentOf(f) = <<>> ->
                hist.last.files[f].entries = <<TocEntry(S_Home, S_Home)>>
           [] ParentOf(f) = <<S_Home>> /\ HasMenu(input) ->
                InMenuOrder(hist.last.files[f].entries, Get(input.guide.doc, "menu").items)
           [] ParentOf(f) = <<S_Home, S_artifacts>> ->
                ArtifactsOrder(hist.last, hist.last.files[f].entries)
           [] Len(f) = 4 /\ IsPrefix(<<S_Home, S_artifacts>>, f) ->
                ArtifactFolderOrder(input, f[3], hist.last.files[f].entries)
           [] OTHER ->
                /\ DirectoryDerived(input, ParentOf(f))
                /\ \A i \in 2..Len(hist.last.files[f].entries) :
                     StrLower(hist.last.files[f].entries[i].filename) # S_index_page_md
                /\ FilesThenDirectories(hist.last, ParentOf(f),
                                        AfterIndex(Filenames(hist.last.files[f].entries)))

\* the TOCs of a guide with value sets and an example: Examples stands after ValueSet in
\* artifacts/toc.yaml, and the value sets a and a-b stand in the order of their ids
C7_Witness ==
  /\ hist.last # NoTree
  /\ IsFile(hist.last, <<S_Home, S_artifacts, S_toc_yaml>>)
  /\ \/ Filenames(hist.last.files[<<S_Home, S_artifacts, S_toc_yaml>>].entries)
          = <<S_index_page_md, StrLower(S_ValueSet), S_examples>>
     \/ /\ IsFile(hist.last, <<S_Home, S_artifacts, StrLower(S_ValueSet), S_toc_yaml>>)
        /\ EntryNames(hist.last.files[<<S_Home, S_artifacts, StrLower(S_ValueSet), S_toc_yaml>>].entries)
             = <<S_Index, <<"a">>, <<"a", "-", "b">>>>

(***************************************************************************)
(* Properties of the ImplementationGuide resource                          *)
(***************************************************************************)
NonEmptyAfterTrim(v) == v.t # "null" /\ Strip(PyStr(v)) # <<>>

StatusText(doc) == StrLower(Strip(PyStr(Get(doc, "status"))))

\* guide.yaml holds id, status, fhirVersion and canonical, and the status is of the enum
FieldsReady(inp) ==
  /\ inp.exists
  /\ inp.guide.present
  /\ inp.guide.doc.kind = "map"
  /\ \A f \in {"id", "status", "fhirVersion", "canonical"} : NonEmptyAfterTrim(Get(inp.guide.doc, f))
  /\ StatusText(inp.guide.doc) \in {S_draft, S_active, S_retired, S_unknown}

InvalidStatus(inp) ==
  /\ inp.exists
  /\ inp.guide.present
  /\ inp.guide.doc.kind = "map"
  /\ NonEmptyAfterTrim(Get(inp.guide.doc, "status"))
  /\ StatusText(inp.guide.doc) \notin {S_draft, S_active, S_retired, S_unknown}

\* C9: the pre-flight check succeeds iff guide.yaml holds id, status, fhirVersion and
\* canonical, non-empty after trimming, with a status of the enum compared without case; for
\* an invalid status the errors hold a message with the value and the enum; the resource
\* emitted for a guide that passes the check has the status in lower case
C9_PreflightIffFieldsReady ==
  /\ res.op = "preflight"
       => /\ res.outcome.ok <=> FieldsReady(input)
          /\ res.outcome.ok <=> res.outcome.errors = <<>>
          /\ InvalidStatus(input)
               => \E i \in 1..Len(res.outcome.errors) :
                    /\ res.outcome.errors[i].kind
                         = "Invalid status value. Must be one of: draft, active, retired, unknown"
                    /\ res.outcome.errors[i].value = StatusText(input.guide.doc)
  /\ (res.op = "ig-resource" /\ res.result.success /\ FieldsReady(input))
       => /\ out.files[res.dir \o <<S_ImplementationGuide_json>>].status = StatusText(input.guide.doc)
          /\ out.files[res.dir \o <<S_ImplementationGuide_json>>].status
               \in {S_draft, S_active, S_retired, S_unknown}

C9_Witness ==
  /\ res.op = "ig-resource"
  /\ res.result.success
  /\ Get(input.guide.doc, "status") = VStr(<<"A","c","t","i","v","e">>)
  /\ IGRes_validate_guide_yaml_for_ig_resource(input).ok
  /\ out.files[res.dir \o <<S_ImplementationGuide_json>>].status = S_active

\* the guide.yaml of guide folder d is missing, empty, or lacks one of the four fields
ConfigLacking(fs, d) ==
  \/ ~IsFile(fs, d \o <<S_guide_yaml>>)
  \/ fs.files[d \o <<S_guide_yaml>>].doc.kind = "none"
  \/ /\ fs.files[d \o <<S_guide_yaml>>].doc.kind = "map"
     /\ \E f \in {"id", "status", "fhirVersion", "canonical"} :
          ~NonEmptyAfterTrim(Get(fs.files[d \o <<S_guide_yaml>>].doc, f))

LackingFields(fs, d) ==
  IF IsFile(fs, d \o <<S_guide_yaml>>) /\ fs.files[d \o <<S_guide_yaml>>].doc.kind = "map"
     /\ DOMAIN fs.files[d \o <<S_guide_yaml>>].doc.m # {}
  THEN {f \in {"id", "status", "fhirVersion", "canonical"} :
          ~NonEmptyAfterTrim(Get(fs.files[d \o <<S_guide_yaml>>].doc, f))}
  ELSE {}

\* C10: when the guide.yaml of the generated output is missing, empty, or lacks one of id,
\* status, fhirVersion, canonical, the IG build returns success = false with errors that
\* name each missing field, and the output root (ImplementationGuide.json included) is as
\* it was before the call
C10_FailedBuildWritesNothing ==
  [][(res'.op = "ig-resource" /\ ConfigLacking(out, res'.dir))
       => /\ ~res'.result.success
          /\ res'.result.errors # <<>>
          /\ \A f \in LackingFields(out, res'.dir) :
               \E i \in 1..Len(res'.result.errors) : res'.result.errors[i].names = <<f>>
          /\ out' = out]_vars

C10_Witness ==
  /\ res.op = "ig-resource"
  /\ ~res.result.success
  /\ Cardinality(LackingFields(out, res.dir)) = 2
  /\ Len(res.result.errors) = 3
  /\ IsFile(out, res.dir \o <<S_ImplementationGuide_json>>)
  /\ out.files[res.dir \o <<S_ImplementationGuide_json>>] = [kind |-> "copy", tag |-> "stale"]

(***************************************************************************)
(* Properties of the page tree of the ImplementationGuide resource         *)
(***************************************************************************)
\* the directories at or under home that are reached from home without passing through
\* pagetemplates or a directory whose name starts with "_" or "."
EligibleDirs(fs, home) ==
  {d \in fs.dirs :
     /\ IsPrefix(home, d)
     /\ \A i \in (Len(home) + 1)..Len(d) :
          d[i] # S_pagetemplates /\ ~StartsWith(d[i], <<"_">>) /\ ~StartsWith(d[i], <<".">>)}

\* the *.page.md files that stand directly in an eligible directory
EligiblePages(fs, home) ==
  {f \in DOMAIN fs.files :
     EndsWith(f[Len(f)], S_page_md) /\ ParentOf(f) \in EligibleDirs(fs, home)}

\* the number of nodes of a page tree as ImplementationGuide.json holds it
RECURSIVE R4Nodes(_)
RECURSIVE R4NodesOfAll(_)
R4NodesOfAll(pages) ==
  IF pages = <<>> THEN 0 ELSE R4Nodes(pages[1]) + R4NodesOfAll(Tail(pages))

R4Nodes(node) == 1 + R4NodesOfAll(node.page)

\* the greatest nesting depth of a page tree as ImplementationGuide.json holds it
RECURSIVE R4Depth(_)
R4Depth(node) ==
  IF node.page = <<>> THEN 1
  ELSE 1 + (CHOOSE m \in {R4Depth(node.page[i]) : i \in 1..Len(node.page)} :
              \A i \in 1..Len(node.page) : R4Depth(node.page[i]) <= m)

\* C11: the page_count of a successful IG build is the number of nodes of the page tree (the
\* root, the directories and the leaf pages at any depth) and the number of nodes of the
\* definition.page tree written to ImplementationGuide.json
C11_PageCountIsNodeCount ==
  (res.op = "ig-resource" /\ res.result.success)
    => /\ res.result.page_count
            = R4Nodes(out.files[res.dir \o <<S_ImplementationGuide_json>>].definition.page)
       /\ res.result.page_count
            = Cardinality(EligibleDirs(out, res.dir \o <<S_Home>>))
              + Cardinality(EligiblePages(out, res.dir \o <<S_Home>>))

C11_Witness ==
  /\ res.op = "ig-resource"
  /\ res.result.success
  /\ res.result.page_count = 8
  /\ R4Depth(out.files[res.dir \o <<S_ImplementationGuide_json>>].definition.page) = 4

(***************************************************************************)
(* IGInitializer.  The target folder is a filesystem of its own: the path  *)
(* <<>> is the target directory.  guide.yaml is a text file held as the    *)
(* sequence of its lines (str.replace with a pattern without a line break  *)
(* acts on each line); the other files are held by where they come from.   *)
(***************************************************************************)
S_title_prefix == <<"t","i","t","l","e",":"," ">>
S_url_key_prefix == <<"u","r","l","-","k","e","y",":"," ">>
S_style_name_prefix == <<"s","t","y","l","e","-","n","a","m","e",":"," ">>
S_My_Implementation_Guide == <<"M","y"," ","I","m","p","l","e","m","e","n","t","a","t","i","o","n"," ","G","u","i","d","e">>
S_my_implementation_guide == <<"m","y","-","i","m","p","l","e","m","e","n","t","a","t","i","o","n","-","g","u","i","d","e">>
S_custom == <<"c","u","s","t","o","m">>
S_config_comment == <<"#"," ","I","m","p","l","e","m","e","n","t","a","t","i","o","n"," ","G","u","i","d","e"," ","C","o","n","f","i","g","u","r","a","t","i","o","n">>
S_menu_line == <<"m","e","n","u",":">>
S_menu_home_line == <<" "," ","H","o","m","e",":"," ","i","n","d","e","x",".","m","d">>
S_menu_artifacts_line == <<" "," ","A","r","t","i","f","a","c","t","s",":"," ","a","r","t","i","f","a","c","t","s">>
S_pages == <<"p","a","g","e","s">>
S_pagetemplates_artifacts == <<"p","a","g","e","t","e","m","p","l","a","t","e","s","-","a","r","t","i","f","a","c","t","s">>
S_resources == <<"r","e","s","o","u","r","c","e","s">>
S_index_dot_md == <<"i","n","d","e","x",".","m","d">>

Init_REQUIRED_FOLDERS == <<S_resources, S_examples, S_pages, S_pagetemplates_artifacts>>

Init_OPTIONAL_FOLDERS == <<S_images, S_pagetemplates>>

TextFile(lines) == [kind |-> "text", lines |-> lines]

\* the result dictionary of initialize()
new_init_result ==
  [success |-> FALSE, folders_created |-> 0, files_created |-> 0, warnings |-> <<>>, errors |-> <<>>]

InitState(fs, result) == [fs |-> fs, result |-> result]

\* the loops of initialize() over the folders to create: a folder that exists is left alone
RECURSIVE IGInit_create_folders(_, _)
IGInit_create_folders(st, folders) ==
  IF folders = <<>> THEN st
  ELSE IGInit_create_folders(
         IF Exists(st.fs, <<folders[1]>>) THEN st
         ELSE InitState(MkdirP(st.fs, <<folders[1]>>),
                        [st.result EXCEPT !.folders_created = @ + 1]),
         Tail(folders))

\* the styles folder of initialize()
IGInit_create_styles_folder(st, style_name) ==
  IF Exists(st.fs, <<S_styles, style_name>>) THEN st
  ELSE InitState(MkdirP(st.fs, <<S_styles, style_name>>),
                 [st.result EXCEPT !.folders_created = @ + 1])

\* _copy_template_file: nothing is copied over a file that exists
IGInit_copy_template_file(st, dest_dir, filename, content) ==
  IF IsFile(st.fs, dest_dir \o <<filename>>) THEN st
  ELSE InitState(WriteFile(MkdirP(st.fs, dest_dir), dest_dir \o <<filename>>, content),
                 [st.result EXCEPT !.files_created = @ + 1])

\* the loop "for f in <template folder>.iterdir()" of _copy_template_files
RECURSIVE IGInit_copy_folder(_, _, _, _)
IGInit_copy_folder(st, dest_dir, names, folder) ==
  IF names = {} THEN st
  ELSE LET n == CHOOSE x \in names : TRUE
       IN IGInit_copy_folder(
            IGInit_copy_template_file(st, dest_dir, n, [kind |-> "bundled", folder |-> folder, name |-> n]),
            dest_dir, names \ {n}, folder)

\* _copy_template_files from the bundled template set
IGInit_copy_template_files(st, bundle, style_name) ==
  LET root(s) ==
        IF bundle.guide.present
        THEN IGInit_copy_template_file(s, <<>>, S_guide_yaml, TextFile(bundle.guide.lines)) ELSE s
      variables(s) ==
        IF bundle.variables
        THEN IGInit_copy_template_file(s, <<>>, S_variables_yaml,
                                       [kind |-> "bundled", folder |-> "", name |-> S_variables_yaml])
        ELSE s
      pages(s) == IGInit_copy_folder(s, <<S_pages>>, bundle.pages, "pages")
      artifacts(s) == IGInit_copy_folder(s, <<S_pagetemplates_artifacts>>, bundle.artifacts,
                                         "pagetemplates-artifacts")
      pagetemplates(s) == IGInit_copy_folder(s, <<S_pagetemplates>>, bundle.pagetemplates, "pagetemplates")
      styles(s) == IGInit_copy_folder(s, <<S_styles, style_name>>, bundle.style, "styles")
  IN styles(pagetemplates(artifacts(pages(variables(root(st))))))

\* url_key = guide_name.lower().replace(" ", "-")
IGInit_url_key(guide_name) == Replace(StrLower(guide_name), <<" ">>, <<"-">>)

\* the guide.yaml that _create_minimal_files writes
MinimalGuideLines(guide_name, style_name) ==
  <<S_config_comment,
    S_title_prefix \o guide_name,
    S_url_key_prefix \o IGInit_url_key(guide_name),
    S_style_name_prefix \o style_name,
    <<>>,
    S_menu_line, S_menu_home_line, S_menu_artifacts_line>>

\* a file that _create_minimal_files writes when it is not there
IGInit_minimal_file(st, path, content) ==
  IF IsFile(st.fs, path) THEN st
  ELSE InitState(WriteFile(MkdirP(st.fs, SubSeq(path, 1, Len(path) - 1)), path, content),
                 [st.result EXCEPT !.files_created = @ + 1])

RECURSIVE IGInit_minimal_files(_, _)
IGInit_minimal_files(st, files) ==
  IF files = <<>> THEN st
  ELSE IGInit_minimal_files(IGInit_minimal_file(st, files[1].path, files[1].content), Tail(files))

\* _create_minimal_files: guide.yaml, pages/index.md, the three style files and the four
\* artifact page templates, in this order
IGInit_create_minimal_files(st, guide_name, style_name) ==
  IGInit_minimal_files(st,
    <<[path |-> <<S_guide_yaml>>, content |-> TextFile(MinimalGuideLines(guide_name, style_name))],
      [path |-> <<S_pages, S_index_dot_md>>, content |-> [kind |-> "minimal", style |-> <<>>]],
      [path |-> <<S_styles, style_name, S_master_html>>, content |-> [kind |-> "minimal", style |-> style_name]],
      [path |-> <<S_styles, style_name, S_settings_style>>, content |-> [kind |-> "minimal", style |-> style_name]],
      [path |-> <<S_styles, style_name, S_style_css>>, content |-> [kind |-> "minimal", style |-> <<>>]],
      [path |-> <<S_pagetemplates_artifacts, S_structuredefinition_md>>, content |-> [kind |-> "minimal", style |-> <<>>]],
      [path |-> <<S_pagetemplates_artifacts, S_valueset_md>>, content |-> [kind |-> "minimal", style |-> <<>>]],
      [path |-> <<S_pagetemplates_artifacts, S_codesystem_md>>, content |-> [kind |-> "minimal", style |-> <<>>]],
      [path |-> <<S_pagetemplates_artifacts, S_examples_md>>, content |-> [kind |-> "minimal", style |-> <<>>]]>>)

\* the three content.replace calls of _customize_guide_yaml on one line
CustomizeLine(line, guide_name, style_name) ==
  Replace(Replace(Replace(line,
                          S_title_prefix \o S_My_Implementation_Guide, S_title_prefix \o guide_name),
                  S_url_key_prefix \o S_my_implementation_guide,
                  S_url_key_prefix \o IGInit_url_key(guide_name)),
          S_style_name_prefix \o S_custom, S_style_name_prefix \o style_name)

\* _customize_guide_yaml: the guide.yaml that is in the target is read, changed and written
IGInit_customize_guide_yaml(st, guide_name, style_name) ==
  IF ~IsFile(st.fs, <<S_guide_yaml>>) THEN st
  ELSE InitState(
         WriteFile(st.fs, <<S_guide_yaml>>,
                   TextFile([i \in 1..Len(st.fs.files[<<S_guide_yaml>>].lines) |->
                               CustomizeLine(st.fs.files[<<S_guide_yaml>>].lines[i],
                                             guide_name, style_name)])),
         st.result)

\* initialize() once the target may be written
IGInit_fill(st, inp) ==
  IGInit_customize_guide_yaml(
    IF inp.bundle.present
    THEN IGInit_copy_template_files(st, inp.bundle, inp.style_name)
    ELSE IGInit_create_minimal_files(
           InitState(st.fs, [st.result EXCEPT !.warnings = @ \o
                               <<"Template files not found. Creating minimal configuration.">>]),
           inp.guide_name, inp.style_name),
    inp.guide_name, inp.style_name)

IGInit_succeed(st) == InitState(st.fs, [st.result EXCEPT !.success = TRUE])

\* IGInitializer(output_dir, guide_name, style_name).initialize(force): [fs, result]
IGInit_initialize(fs, inp, force) ==
  IF IsDir(fs, <<>>) /\ (ChildFiles(fs, <<>>) \cup ChildDirs(fs, <<>>)) # {} /\ ~force
  THEN InitState(fs, [new_init_result EXCEPT !.errors =
                        <<"Directory is not empty", "Use --force to initialize anyway">>])
  ELSE IGInit_succeed(
         IGInit_fill(
           IGInit_create_styles_folder(
             IGInit_create_folders(
               InitState(MkdirP(fs, <<>>),
                         IF IsDir(fs, <<>>) /\ (ChildFiles(fs, <<>>) \cup ChildDirs(fs, <<>>)) # {}
                         THEN [new_init_result EXCEPT !.warnings =
                                 <<"Directory is not empty. Existing files will not be overwritten.">>]
                         ELSE new_init_result),
               Init_REQUIRED_FOLDERS \o Init_OPTIONAL_FOLDERS),
             inp.style_name),
           inp))


(***************************************************************************)
(* The initializer on its own: a target folder under out, the guide and    *)
(* style name and the bundled template set under input, initialize() as    *)
(* the one operation, run with and without force, again and again.         *)
(***************************************************************************)
GuideNames ==
  {<<"G">>, <<"A", " ", "b">>, S_My_Implementation_Guide, S_My_Implementation_Guide \o <<" ", "2">>}

StyleNames == {S_custom, S_custom \o <<"2">>, <<"s">>}

NoBundle ==
  [present |-> FALSE, guide |-> [present |-> FALSE, lines |-> <<>>], variables |-> FALSE,
   pages |-> {}, artifacts |-> {}, pagetemplates |-> {}, style |-> {}]

\* the template set shipped next to the module: its guide.yaml carries the three lines
\* that _customize_guide_yaml looks for
BundledTemplates ==
  [present |-> TRUE,
   guide |-> [present |-> TRUE,
              lines |-> <<S_title_prefix \o S_My_Implementation_Guide,
                          S_url_key_prefix \o S_my_implementation_guide,
                          S_style_name_prefix \o S_custom,
                          S_menu_line, S_menu_home_line>>],
   variables |-> TRUE,
   pages |-> {S_index_dot_md},
   artifacts |-> {S_valueset_md, S_examples_md},
   pagetemplates |-> {},
   style |-> {S_master_html, S_settings_style, S_style_css}]

InitInputs ==
  [guide_name : GuideNames, style_name : StyleNames, bundle : {NoBundle, BundledTemplates}]

OwnFile(tag) == [kind |-> "own", tag |-> tag]

\* what the target holds before initialize(): nothing at all, an empty folder, or a
\* project somebody has been working in
Targets ==
  {EmptyFS,
   [dirs |-> {<<>>}, files |-> NoFiles],
   [dirs |-> {<<>>}, files |-> (<<<<"n">>>> :> OwnFile("notes"))],
   [dirs |-> {<<>>},
    files |-> (<<S_guide_yaml>> :>
                 TextFile(<<S_title_prefix \o <<"T">>, S_url_key_prefix \o <<"t">>,
                            S_style_name_prefix \o S_custom>>))],
   [dirs |-> {<<>>},
    files |-> (<<S_guide_yaml>> :>
                 TextFile(<<S_title_prefix \o <<"T">>, S_url_key_prefix \o <<"t">>,
                            S_style_name_prefix \o <<"t">>>>))],
   [dirs |-> {<<>>, <<S_pages>>, <<S_styles>>, <<S_styles, S_custom>>},
    files |-> (<<S_pages, S_index_dot_md>> :> OwnFile("index")) @@
              (<<S_styles, S_custom, S_style_css>> :> OwnFile("css"))]}

InitInit ==
  /\ input \in InitInputs
  /\ out \in Targets
  /\ res = [op |-> "none"]
  /\ hist = [before |-> EmptyFS, runs |-> 0]

Initialize ==
  \E force \in BOOLEAN :
    \E g \in {IGInit_initialize(out, input, force)} :
      /\ hist.runs < MaxRuns
      /\ out' = g.fs
      /\ res' = [op |-> "initialize", force |-> force, result |-> g.result]
      /\ hist' = [before |-> out, runs |-> hist.runs + 1]
      /\ UNCHANGED input

NextInit == Initialize

SpecInit == InitInit /\ [][NextInit]_vars


(***************************************************************************)
(* C12                                                                     *)
(***************************************************************************)
NonEmptyTarget(fs) == IsDir(fs, <<>>) /\ (ChildFiles(fs, <<>>) \cup ChildDirs(fs, <<>>)) # {}

FilesKept(before, after) ==
  \A f \in DOMAIN before.files : f \in DOMAIN after.files /\ after.files[f] = before.files[f]

\* C12: initialize never changes a file that was there before: into a non-empty target
\* without force it fails and creates or modifies nothing, and with force it succeeds
\* and every file that was there before, guide.yaml included, has the same content after.
C12_PreexistingFilesKept ==
  res.op = "initialize" =>
    /\ (NonEmptyTarget(hist.before) /\ ~res.force) => (~res.result.success /\ out = hist.before)
    /\ res.force => res.result.success
    /\ FilesKept(hist.before, out)

\* initialize(force) has run on a target whose guide.yaml names the style "custom" and
\* the guide.yaml of the target is no longer what it was
C12_Witness ==
  /\ res.op = "initialize" /\ res.force /\ res.result.success
  /\ IsFile(hist.before, <<S_guide_yaml>>)
  /\ out.files[<<S_guide_yaml>>] # hist.before.files[<<S_guide_yaml>>]
  /\ \A f \in DOMAIN hist.before.files \ {<<S_guide_yaml>>} : out.files[f] = hist.before.files[f]


(***************************************************************************)
(* C13                                                                     *)
(***************************************************************************)
\* what in the input an exception message comes from
CauseInInput(cause, inp) ==
  CASE cause = "load_yaml" -> ~inp.exists \/ ~inp.guide.present \/ inp.guide.doc.kind = "unparsable"
    [] cause = "no attribute get" -> inp.guide.doc.kind \notin {"map", "unparsable"}
    [] cause = "load_yaml variables" -> inp.variables.present /\ inp.variables.doc.kind = "unparsable"
    [] cause = "copytree: file exists" -> "pagetemplates" \in inp.folders
    [] cause = "no attribute lower" -> "resources" \in inp.folders
    [] OTHER -> FALSE

\* C13: generate() either returns a result with success = true or raises GenerationError;
\* it never returns success = false, and an exception that is not a GenerationError,
\* one of the validator included, leaves as a GenerationError that carries its message.
C13_SuccessOrGenerationError ==
  res.op = "generate" =>
    /\ res.raised \/ res.result.success
    /\ (res.raised /\ res.error.wrapped) => CauseInInput(res.error.cause, input)
    /\ (~res.skip /\ Validator_validate(input).raised)
         => (res.raised /\ res.error.wrapped /\ res.error.cause = Validator_validate(input).msg)
    /\ (res.skip /\ Generator_load_guide_config(input).how = "Exception")
         => (res.raised /\ res.error.wrapped
             /\ res.error.cause = Generator_load_guide_config(input).msg)

\* an exception of the validator has left generate() wrapped in a GenerationError
C13_Witness ==
  /\ res.op = "generate" /\ ~res.skip /\ Validator_validate(input).raised
  /\ res.raised /\ res.error.wrapped /\ res.error.cause = "no attribute get"


(***************************************************************************)
(* C14                                                                     *)
(***************************************************************************)
\* the keys of the variables.yaml files of the inputs, as texts
VariableNames == ("k" :> <<"k">>) @@ ("no" :> <<"n", "o">>)

\* the string entries of variables.yaml, by name
ConfiguredVariables(inp) ==
  IF inp.variables.present /\ inp.variables.doc.kind = "map"
  THEN [n \in {VariableNames[k] : k \in {j \in DOMAIN inp.variables.doc.m :
                                            inp.variables.doc.m[j].t = "str"}} |->
          inp.variables.doc.m[CHOOSE k \in DOMAIN inp.variables.doc.m : VariableNames[k] = n].s]
  ELSE [n \in {} |-> <<>>]

ArtifactPage(tree, folder, id) == tree.files[<<S_Home, S_artifacts, folder, id \o S_page_md>>]

\* the variables of a resource page together with the entries of variables.yaml
WithConfigured(type, info, configured) ==
  [k \in {S_file_name, type \o S_dot_url} \cup DOMAIN configured |->
     IF k = S_file_name THEN info.id
     ELSE IF k = type \o S_dot_url THEN info.url ELSE configured[k]]

\* the pages of the resources that have a template hold the entries of variables.yaml
\* in place of the placeholders that name them
ResourcePagesUse(tree, inp, configured) ==
  \A i \in 1..Len(Generator_resource_infos(inp)) :
    LET info == Generator_resource_infos(inp)[i]
    IN info.resourceType \in DOMAIN Generator_load_templates(inp)
         => ArtifactPage(tree, StrLower(info.resourceType), info.id).text
              = resolve_template_variables(Generator_load_templates(inp)[info.resourceType],
                                           WithConfigured(info.resourceType, info, configured))

\* C14: the entries of variables.yaml are replacement values for the placeholders of the
\* artifact templates: the page generated from a template that names a key of
\* variables.yaml holds the value of the key in place of the placeholder.
C14_ConfiguredVariablesReplaced ==
  hist.last # NoTree => ResourcePagesUse(hist.last, input, ConfiguredVariables(input))

\* a value set page generated from a template that names the variable "no", which
\* variables.yaml defines
C14_Witness ==
  /\ hist.last # NoTree
  /\ <<"n", "o">> \in DOMAIN ConfiguredVariables(input)
  /\ IsFile(hist.last, <<S_Home, S_artifacts, StrLower(S_ValueSet), <<"a">> \o S_page_md>>)
  /\ ArtifactPage(hist.last, StrLower(S_ValueSet), <<"a">>).kind = "text"


(***************************************************************************)
(* C15                                                                     *)
(***************************************************************************)
\* guide.yaml parses to a non-empty mapping with a non-blank title, url-key and style-name
UsableConfig(doc) ==
  /\ doc.kind = "map"
  /\ DOMAIN doc.m # {}
  /\ \A k \in {"title", "url-key", "style-name"} : NonBlank(Get(doc, k))

\* C15: for an input folder that exists, with the required folders and a guide.yaml,
\* validate() returns a report and does not raise; when guide.yaml does not parse to a
\* non-empty mapping with a non-blank title, url-key and style-name, the report has
\* is_valid = false and exactly one error.
C15_ConfigDefectsReported ==
  (res.op = "validate" /\ input.exists /\ RequiredFolders \subseteq input.folders
     /\ input.guide.present)
    => /\ ~res.outcome.raised
       /\ ~UsableConfig(input.guide.doc)
            => (~res.outcome.report.is_valid /\ Len(res.outcome.report.errors) = 1)

\* validate() has raised on a guide.yaml that holds a list
C15_Witness ==
  /\ res.op = "validate" /\ input.exists /\ RequiredFolders \subseteq input.folders
  /\ input.guide.present /\ input.guide.doc.kind = "list"
  /\ res.outcome.raised /\ res.outcome.msg = "no attribute get"


(***************************************************************************)
(* C16                                                                     *)
(***************************************************************************)
\* the entry of one menu item: a sub-folder named by the lower-cased display name for
\* true, the renamed page file (lower-cased stem) for a value that ends in .md in any
\* letter case, a sub-folder of the literal name for another string; none when the
\* target is not there
MenuTarget(tree, item) ==
  LET page == StrLower(SubSeq(item.value.s, 1, Len(item.value.s) - 3)) \o S_page_md
  IN IF item.value.t = "bool" /\ item.value.b
     THEN (IF IsDir(tree, <<S_Home, StrLower(item.name)>>)
           THEN <<TocEntry(item.name, StrLower(item.name))>> ELSE <<>>)
     ELSE IF item.value.t = "str" /\ EndsWith(StrLower(item.value.s), S_md)
     THEN (IF IsFile(tree, <<S_Home, page>>) THEN <<TocEntry(item.name, page)>> ELSE <<>>)
     ELSE IF item.value.t = "str"
     THEN (IF IsDir(tree, <<S_Home, item.value.s>>)
           THEN <<TocEntry(item.name, item.value.s)>> ELSE <<>>)
     ELSE <<>>

RECURSIVE MenuTargets(_, _)
MenuTargets(tree, items) ==
  IF items = <<>> THEN <<>> ELSE MenuTarget(tree, items[1]) \o MenuTargets(tree, Tail(items))

HomeTocIs(tree, entries) ==
  /\ entries # <<>> => IsFile(tree, <<S_Home, S_toc_yaml>>)
  /\ IsFile(tree, <<S_Home, S_toc_yaml>>) => tree.files[<<S_Home, S_toc_yaml>>].entries = entries

\* C16: with a menu, Home/toc.yaml holds, in menu order, one entry for each item whose
\* target exists; a value that ends in .md names the renamed page file with the
\* lower-cased stem, so every page pages/<Name>.md that a menu value <Name>.md names has
\* an entry.
C16_MenuEntriesForExistingTargets ==
  (hist.last # NoTree /\ HasMenu(input))
    => HomeTocIs(hist.last, MenuTargets(hist.last, Get(input.guide.doc, "menu").items))

\* pages/A.md stands under Home/ as a.page.md, the menu names it as A.md, and no entry of
\* Home/toc.yaml has the display name of that item
C16_Witness ==
  /\ hist.last # NoTree /\ HasMenu(input)
  /\ \E i \in 1..Len(input.pages) : input.pages[i].path = <<<<"A">> \o S_md>>
  /\ IsFile(hist.last, <<S_Home, <<"a">> \o S_page_md>>)
  /\ IsFile(hist.last, <<S_Home, S_toc_yaml>>)
  /\ \A i \in 1..Len(hist.last.files[<<S_Home, S_toc_yaml>>].entries) :
       hist.last.files[<<S_Home, S_toc_yaml>>].entries[i].name # <<"U">>


(***************************************************************************)
(* C17                                                                     *)
(***************************************************************************)
\* the ids of the resources whose pages stand in the folder of Home/artifacts/
FolderIds(inp, folder) ==
  IF folder = S_examples
  THEN {Generator_example_infos(inp)[i].id : i \in 1..Len(Generator_example_infos(inp))}
  ELSE {Generator_resource_infos(inp)[i].id :
          i \in {j \in 1..Len(Generator_resource_infos(inp)) :
                   StrLower(Generator_resource_infos(inp)[j].resourceType) = folder}}

\* the custom index of the folder is in place and heads the TOC of the folder, followed
\* by the resources of the folder by id
IndexHeads(tree, inp, folder, text) ==
  /\ IsFile(tree, <<S_Home, S_artifacts, folder, S_index_page_md>>)
  /\ tree.files[<<S_Home, S_artifacts, folder, S_index_page_md>>] = [kind |-> "text", text |-> text]
  /\ FolderIds(inp, folder) # {} => IsFile(tree, <<S_Home, S_artifacts, folder, S_toc_yaml>>)
  /\ IsFile(tree, <<S_Home, S_artifacts, folder, S_toc_yaml>>)
       => /\ tree.files[<<S_Home, S_artifacts, folder, S_toc_yaml>>].entries # <<>>
          /\ tree.files[<<S_Home, S_artifacts, folder, S_toc_yaml>>].entries[1]
               = TocEntry(S_Index, S_index_page_md)
          /\ Ascending(EntryNames(Tail(tree.files[<<S_Home, S_artifacts, folder, S_toc_yaml>>].entries)))
          /\ Range(EntryNames(Tail(tree.files[<<S_Home, S_artifacts, folder, S_toc_yaml>>].entries)))
               = FolderIds(inp, folder)

\* C17: for every <type>.index.md of pagetemplates-artifacts/, in whatever letter case the
\* type is written, the index page stands at Home/artifacts/<lower-cased type>/index.page.md
\* and the toc.yaml of that folder starts with Index, followed by every resource of the
\* folder by id; the same for examples.index.md.
C17_CustomIndexHeadsFolder ==
  (hist.last # NoTree /\ "pagetemplates-artifacts" \in input.folders)
    => \A n \in Glob(DOMAIN input.templates, S_index_md) :
         IndexHeads(hist.last, input, StrLower(Replace(PathStem(n), S_dot_index, <<>>)),
                    input.templates[n])

\* ValueSet.index.md is among the templates, a value set has its page, and the TOC of
\* Home/artifacts/valueset/ does not start with Index
C17_Witness ==
  /\ hist.last # NoTree
  /\ (S_ValueSet \o S_index_md) \in DOMAIN input.templates
  /\ IsFile(hist.last, <<S_Home, S_artifacts, StrLower(S_ValueSet), S_toc_yaml>>)
  /\ hist.last.files[<<S_Home, S_artifacts, StrLower(S_ValueSet), S_toc_yaml>>].entries[1]
       = TocEntry(<<"a">>, <<"a">> \o S_page_md)
  /\ IsFile(hist.last, <<S_Home, S_artifacts, S_ValueSet, S_index_page_md>>)


(***************************************************************************)
(* C18                                                                     *)
(***************************************************************************)
\* the text has the line prefix + value and no other line that starts with the prefix
OneLine(lines, prefix, value) ==
  /\ \E i \in 1..Len(lines) : lines[i] = prefix \o value
  /\ \A i \in 1..Len(lines) : StartsWith(lines[i], prefix) => lines[i] = prefix \o value

StyleFilesUnder(fs, style_name) ==
  /\ ChildFiles(fs, <<S_styles, style_name>>) # {}
  /\ \A f \in DOMAIN fs.files : f[1] = S_styles => (Len(f) = 3 /\ f[2] = style_name)

\* C18: after a successful initialize() into an empty or a missing target, for every guide
\* name and style name, with the bundled templates or the minimal defaults, guide.yaml
\* holds exactly the lines title: <guide name>, url-key: <guide name in lower case with
\* hyphens for spaces> and style-name: <style name>, and the style files stand under
\* styles/<style name>/.
C18_GuideYamlCustomized ==
  (res.op = "initialize" /\ res.result.success /\ ~NonEmptyTarget(hist.before))
    => /\ IsFile(out, <<S_guide_yaml>>)
       /\ OneLine(out.files[<<S_guide_yaml>>].lines, S_title_prefix, input.guide_name)
       /\ OneLine(out.files[<<S_guide_yaml>>].lines, S_url_key_prefix,
                  Replace(StrLower(input.guide_name), <<" ">>, <<"-">>))
       /\ OneLine(out.files[<<S_guide_yaml>>].lines, S_style_name_prefix, input.style_name)
       /\ StyleFilesUnder(out, input.style_name)

\* initialize() has written the minimal defaults for the style "custom2" into an empty
\* target, and guide.yaml names the style "custom22"
C18_Witness ==
  /\ res.op = "initialize" /\ res.result.success /\ ~NonEmptyTarget(hist.before)
  /\ ~input.bundle.present /\ input.style_name = S_custom \o <<"2">>
  /\ \E i \in 1..Len(out.files[<<S_guide_yaml>>].lines) :
       out.files[<<S_guide_yaml>>].lines[i] = S_style_name_prefix \o S_custom \o <<"2", "2">>


(***************************************************************************)
(* C19                                                                     *)
(***************************************************************************)
\* the nodes of a page tree as ImplementationGuide.json holds it, the root first
RECURSIVE R4List(_)
RECURSIVE R4ListOfAll(_)
R4ListOfAll(pages) ==
  IF pages = <<>> THEN <<>> ELSE R4List(pages[1]) \o R4ListOfAll(Tail(pages))

R4List(node) == <<node>> \o R4ListOfAll(node.page)

\* the names of a path joined by "/"
RECURSIVE SlashJoined(_)
SlashJoined(p) ==
  IF Len(p) = 1 THEN p[1] ELSE SlashJoined(SubSeq(p, 1, Len(p) - 1)) \o <<"/">> \o p[Len(p)]

NameUrlsOf(nodes, generation) ==
  LET Test(u) == u # <<>>
  IN SelectSeq([i \in 1..Len(nodes) |-> IF nodes[i].generation = generation
                                         THEN nodes[i].nameUrl ELSE <<>>], Test)

\* the children of a directory node: its page files, index.page.md first and the others
\* ascending, then its sub-directories ascending
ChildrenInOrder(node) ==
  \E k \in 0..Len(node.page) :
    /\ \A i \in 1..k : node.page[i].generation = "markdown"
    /\ \A i \in (k + 1)..Len(node.page) : node.page[i].generation = "generated"
    /\ \A i \in 2..k : node.page[i].nameUrl # node.nameUrl \o <<"/">> \o S_index_page_md
    /\ \A i \in 2..(k - 1) : StrLess(node.page[i].nameUrl, node.page[i + 1].nameUrl)
    /\ (k >= 2 /\ node.page[1].nameUrl # node.nameUrl \o <<"/">> \o S_index_page_md)
         => StrLess(node.page[1].nameUrl, node.page[2].nameUrl)
    /\ \A i \in (k + 1)..(Len(node.page) - 1) :
         StrLess(node.page[i].nameUrl, node.page[i + 1].nameUrl)
    /\ \A i \in 1..Len(node.page) :
         /\ IsPrefix(node.nameUrl \o <<"/">>, node.page[i].nameUrl)
         /\ \A j \in (Len(node.nameUrl) + 2)..Len(node.page[i].nameUrl) :
              node.page[i].nameUrl[j] # "/"

PageTreeOf(fs, gdir, nodes) ==
  /\ NoRepetition(NameUrlsOf(nodes, "generated"))
  /\ NoRepetition(NameUrlsOf(nodes, "markdown"))
  /\ Range(NameUrlsOf(nodes, "generated"))
       = {SlashJoined(SubSeq(d, Len(gdir) + 1, Len(d))) : d \in EligibleDirs(fs, gdir \o <<S_Home>>)}
  /\ Range(NameUrlsOf(nodes, "markdown"))
       = {SlashJoined(SubSeq(f, Len(gdir) + 1, Len(f))) : f \in EligiblePages(fs, gdir \o <<S_Home>>)}
  /\ \A i \in 1..Len(nodes) : nodes[i].generation \in {"generated", "markdown"}
  /\ \A i \in 1..Len(nodes) :
       IF nodes[i].generation = "generated" THEN ChildrenInOrder(nodes[i])
       ELSE nodes[i].page = <<>>

\* C19: the page tree has one directory node (generated) for every directory reachable
\* from Home without passing pagetemplates or a name that starts with _ or ., and one leaf
\* (markdown) for every *.page.md directly in such a directory; the nameUrl of a node is
\* its path from Home joined by slashes; the children of a directory node are its page
\* files, index.page.md first and the others by name, then its sub-directories by name.
C19_PageTreeMirrorsHome ==
  (res.op = "ig-resource" /\ res.result.success)
    => PageTreeOf(out, res.dir,
                  R4List(out.files[res.dir \o <<S_ImplementationGuide_json>>].definition.page))

\* an IG resource built over a Home/ with a folder that starts with "_", a sub-folder with
\* an index page, and the artifact folders: six nodes
C19_Witness ==
  /\ res.op = "ig-resource" /\ res.result.success
  /\ IsFile(out, res.dir \o <<S_Home, <<"_", "d">>, <<"e">> \o S_page_md>>)
  /\ IsFile(out, res.dir \o <<S_Home, <<"B", "-", "x">>, S_index_page_md>>)
  /\ IsFile(out, res.dir \o <<S_Home, S_artifacts, S_index_page_md>>)
  /\ res.result.page_count = 6


(***************************************************************************)
(* C20                                                                     *)
(***************************************************************************)
\* the display name of a name: hyphens and underscores to spaces, then title case, with
\* Index for index and Artifacts for artifacts
DisplayName(name) ==
  IF StrLower(name) = S_index THEN S_Index
  ELSE IF StrLower(name) = S_artifacts THEN S_Artifacts
  ELSE Title(Replace(Replace(name, <<"-">>, <<" ">>), <<"_">>, <<" ">>))

EntryDisplayed(entry) ==
  entry.name = DisplayName(IF EndsWith(entry.filename, S_page_md)
                           THEN Replace(entry.filename, S_page_md, <<>>) ELSE entry.filename)

\* the title of the node of the page tree with the nameUrl
TitlesOf(nodes, nameUrl) == {nodes[i].title : i \in {j \in 1..Len(nodes) : nodes[j].nameUrl = nameUrl}}

DisplayNamesAreTitles(tree, inp, nodes) ==
  \A f \in TocPaths(tree) :
    DirectoryDerived(inp, ParentOf(f))
      => \A i \in 1..Len(tree.files[f].entries) :
           /\ EntryDisplayed(tree.files[f].entries[i])
           /\ TitlesOf(nodes, SlashJoined(ParentOf(f) \o <<tree.files[f].entries[i].filename>>))
                \subseteq {tree.files[f].entries[i].name}

\* C20: in a TOC derived from a directory the display name of a page entry is its stem and
\* that of a sub-directory entry its name, with hyphens and underscores replaced by spaces
\* and title-cased, Index for the stem index and Artifacts for the directory artifacts; so
\* the display name of a page or directory is the title of its node in the page tree of
\* ImplementationGuide.json.
C20_DisplayNameIsFormattedTitle ==
  (res.op = "ig-resource" /\ res.result.success)
    => DisplayNamesAreTitles(
         SubTree(out, res.dir), input,
         R4List(out.files[res.dir \o <<S_ImplementationGuide_json>>].definition.page))

\* the TOC of Home/ and the page tree both name the page x_y.page.md, the one as X_Y and
\* the other as X Y
C20_Witness ==
  /\ res.op = "ig-resource" /\ res.result.success /\ ~HasMenu(input)
  /\ IsFile(out, res.dir \o <<S_Home, S_toc_yaml>>)
  /\ TocEntry(<<"X", "_", "Y">>, <<"x", "_", "y">> \o S_page_md)
       \in Range(out.files[res.dir \o <<S_Home, S_toc_yaml>>].entries)
  /\ TitlesOf(R4List(out.files[res.dir \o <<S_ImplementationGuide_json>>].definition.page),
              S_Home \o <<"/", "x", "_", "y">> \o S_page_md) = {<<"X", " ", "Y">>}


(***************************************************************************)
(* C21                                                                     *)
(***************************************************************************)
\* generate() gets as far as the output setup: the validation is skipped or passes and
\* the configuration files load
ReachesSetup(inp, skip) ==
  /\ skip \/ (~Validator_validate(inp).raised /\ Validator_validate(inp).report.is_valid)
  /\ Generator_load_guide_config(inp).how = "ok"
  /\ Generator_load_variables_config(inp).how = "ok"

\* the configuration loading fails: guide.yaml is empty, or url-key is missing or blank
ConfigLoadingFails(inp, skip) ==
  /\ skip \/ (~Validator_validate(inp).raised /\ Validator_validate(inp).report.is_valid)
  /\ Generator_load_guide_config(inp).how = "GenerationError"

\* a file of the guide folder that the setup and the copy of the root files produce
RootProduct(f) ==
  \/ f \in {<<S_guide_yaml>>, <<S_variables_yaml>>}
  \/ f[1] = S_styles
  \/ Len(f) >= 2 /\ f[1] = S_Home /\ f[2] = S_images

NoTocNoStale(tree) ==
  /\ IsDir(tree, <<>>) /\ IsDir(tree, <<S_Home>>)
  /\ \A f \in DOMAIN tree.files :
       /\ f[Len(f)] # S_toc_yaml
       /\ tree.files[f] # [kind |-> "copy", tag |-> "stale"]

ArtifactsLeft(tree, error) ==
  IF error.wrapped /\ error.cause = "no attribute lower"
  THEN {f \in DOMAIN tree.files : ~RootProduct(f)} = {<<S_Home, S_artifacts, S_index_page_md>>}
  ELSE /\ ~IsDir(tree, <<S_Home, S_artifacts>>)
       /\ error.msg = "Pages directory not found" => \A f \in DOMAIN tree.files : RootProduct(f)

CmdOutcome(fs, exit, pre_ok, gen, ig_ran, ig_success) ==
  [fs |-> fs, exit |-> exit, pre_ok |-> pre_ok, raised |-> gen.raised, result |-> gen.result,
   ig_ran |-> ig_ran, ig_success |-> ig_success]

\* the end of the try block: the outcome of ig_gen.generate() is printed, the status is 0
cmd_generate_ig_step(ig, pre_ok, gen) ==
  CmdOutcome(ig.fs, 0, pre_ok, gen, TRUE, ig.result.success)

\* a faulty variant: a failed pre-flight check ends the command before the Generator runs
cmd_generate_try_fatal(inp, fs, gen, pre_ok, generate_ig_resource) ==
  IF ~pre_ok THEN CmdOutcome(fs, 1, pre_ok, [gen EXCEPT !.raised = TRUE], FALSE, FALSE)
  ELSE IF gen.raised THEN CmdOutcome(gen.fs, 1, pre_ok, gen, FALSE, FALSE)
  ELSE IF generate_ig_resource
    THEN cmd_generate_ig_step(IGRes_generate(gen.fs, gen.result.output_path, inp, TRUE), pre_ok, gen)
  ELSE CmdOutcome(gen.fs, 0, pre_ok, gen, FALSE, FALSE)

\* the try block of cmd_generate: gen is the outcome of generator.generate()
cmd_generate_try(inp, fs, gen, pre_ok, generate_ig_resource) ==
  IF gen.raised THEN CmdOutcome(gen.fs, 1, pre_ok, gen, FALSE, FALSE)
  ELSE IF generate_ig_resource
    THEN cmd_generate_ig_step(IGRes_generate(gen.fs, gen.result.output_path, inp, TRUE), pre_ok, gen)
  ELSE CmdOutcome(gen.fs, 0, pre_ok, gen, FALSE, FALSE)

\* the pre-flight check runs unless --no-ig-resource is given; its failure clears
\* generate_ig_resource
cmd_generate_preflight(inp, fs, skip_validation, no_ig_resource, pre) ==
  cmd_generate_try(inp, fs, Generator_generate(inp, fs, skip_validation),
                   no_ig_resource \/ pre.ok, ~no_ig_resource /\ pre.ok)

\* cmd_generate with --input and --output given
cmd_generate(inp, fs, skip_validation, no_ig_resource) ==
  cmd_generate_preflight(inp, fs, skip_validation, no_ig_resource,
                         IGRes_validate_guide_yaml_for_ig_resource(inp))

\* simplifier-ig generate --input ... --output ... [--skip-validation] [--no-ig-resource]
CmdGenerate ==
  \E skip \in BOOLEAN, no_ig \in BOOLEAN :
    \E c \in {cmd_generate(input, out, skip, no_ig)} :
      /\ hist.runs < MaxRuns
      /\ out' = c.fs
      /\ res' = [op |-> "cmd_generate", skip |-> skip, no_ig |-> no_ig, exit |-> c.exit,
                 pre_ok |-> c.pre_ok, raised |-> c.raised, result |-> c.result,
                 ig_ran |-> c.ig_ran, ig_success |-> c.ig_success]
      /\ hist' = [before |-> out, runs |-> hist.runs + 1]
      /\ UNCHANGED input

InitCli ==
  /\ input \in Inputs
  /\ out = EmptyFS
  /\ res = [op |-> "none"]
  /\ hist = [before |-> EmptyFS, runs |-> 0]

NextCli == CmdGenerate

SpecCli == InitCli /\ [][NextCli]_vars

(***************************************************************************)
(* C22                                                                     *)
(***************************************************************************)
\* the output tree but for the ImplementationGuide.json of the guide folder
WithoutIGJson(fs, gdir) == RmTree(fs, gdir \o <<S_ImplementationGuide_json>>)

UrlKeys == {<<"g">>, <<"h">>, <<".">>, <<"g", "/", "h">>}

KeyInputs ==
  {[BaseInput EXCEPT !.guide = File(TRUE, DocMap(MapOf(WithField(BaseGuidePairs, "url-key", VStr(k)))))]
     : k \in UrlKeys}

\* guide.yaml of the input folder gets another url-key between two runs
EditUrlKey ==
  /\ input' \in KeyInputs \ {input}
  /\ res' = [op |-> "edit"]
  /\ UNCHANGED <<out, hist>>

InitKey ==
  /\ input \in KeyInputs
  /\ out = EmptyFS
  /\ res = [op |-> "none"]
  /\ hist = [prev |-> NoTree, last |-> NoTree, dropped |-> {}]

NextKey == Generate \/ EditUrlKey

SpecKey == InitKey /\ [][NextKey]_vars

\* the files that a step deleted, created or changed
TouchedFiles(before, after) ==
  {f \in DOMAIN before.files \cup DOMAIN after.files :
     ~(f \in DOMAIN before.files /\ f \in DOMAIN after.files /\ before.files[f] = after.files[f])}

\* the directories below the output root that a step deleted or created
TouchedDirs(before, after) ==
  ((before.dirs \ after.dirs) \cup (after.dirs \ before.dirs)) \ {<<>>}

\* C23: for every url-key that _load_guide_config accepts, every path that generate()
\* deletes, creates or writes lies in one subfolder of the output root, the first
\* component of the guide's path: files are at least one level below the output root,
\* and no sibling folder of that subfolder is touched.
C23_WritesStayInsideSubfolder ==
  [][(res'.op = "generate" /\ Generator_load_guide_config(input).how = "ok")
       => /\ \A f \in TouchedFiles(out, out') : Len(f) >= 2
          /\ \A p \in TouchedFiles(out, out') \cup TouchedDirs(out, out') :
               /\ GuideOutputDir(Generator_load_guide_config(input).guide_name) # <<>>
               /\ p[1] = GuideOutputDir(Generator_load_guide_config(input).guide_name)[1]]_vars

\* generate() for the url-key "." has succeeded on an output root that held the guide
\* folder g: g is gone and guide.yaml stands in the output root itself
C23_Witness ==
  /\ res.op = "generate" /\ ~res.raised
  /\ Generator_load_guide_config(input).guide_name = <<".">>
  /\ <<<<"g">>, S_guide_yaml>> \in hist.dropped
  /\ ~IsDir(out, <<<<"g">>>>)
  /\ IsFile(out, <<S_guide_yaml>>)


(***************************************************************************)
(* C24                                                                     *)
(***************************************************************************)
\* the ImplementationGuide documents that IGResourceGenerator.generate() wrote
WrittenIGs(fs) == {f \in DOMAIN fs.files : fs.files[f].kind = "ig"}

\* C24: every ImplementationGuide.json that IGResourceGenerator.generate() writes has a
\* status among draft, active, retired and unknown, in lower case.
C24_WrittenStatusIsValid ==
  \A f \in WrittenIGs(out) : out.files[f].status \in {S_draft, S_active, S_retired, S_unknown}

\* ig-resource has succeeded on a generated guide folder whose guide.yaml has the status
\* "pending", which the pre-flight check of the same guide.yaml rejects
C24_Witness ==
  /\ res.op = "ig-resource" /\ res.result.success
  /\ IsFile(out, res.dir \o <<S_ImplementationGuide_json>>)
  /\ out.files[res.dir \o <<S_ImplementationGuide_json>>].kind = "ig"
  /\ out.files[res.dir \o <<S_ImplementationGuide_json>>].status = <<"p","e","n","d","i","n","g">>
  /\ ~IGRes_validate_guide_yaml_for_ig_resource(input).ok


(***************************************************************************)
(* C25                                                                     *)
(***************************************************************************)
\* the artifact pages under Home/artifacts/ of a guide tree: the *.page.md files other
\* than the index pages
ArtifactPageFiles(tree) ==
  {f \in DOMAIN tree.files :
     /\ IsPrefix(<<S_Home, S_artifacts>>, f)
     /\ EndsWith(f[Len(f)], S_page_md)
     /\ f[Len(f)] # S_index_page_md}

\* C25: after a successful generate(), resource_count + example_count is the number of
\* artifact page files under Home/artifacts/.
C25_CountsAreArtifactPages ==
  (res.op = "generate" /\ ~res.raised)
    => res.result.resource_count + res.result.example_count
         = Cardinality(ArtifactPageFiles(SubTree(out, res.result.output_path)))

\* generate() has counted two resources, both ValueSet/a, and Home/artifacts/ holds the
\* one page valueset/a.page.md
C25_Witness ==
  /\ res.op = "generate" /\ ~res.raised
  /\ res.result.resource_count = 2 /\ res.result.example_count = 0
  /\ \A n \in DOMAIN input.resources : input.resources[n] = Json(VStr(S_ValueSet), VStr(<<"a">>))
  /\ ArtifactPageFiles(SubTree(out, res.result.output_path))
       = {<<S_Home, S_artifacts, StrLower(S_ValueSet), <<"a">> \o S_page_md>>}


(***************************************************************************)
(* C26                                                                     *)
(***************************************************************************)
\* the <resourceType>/<id> references of the resources and examples for which the
\* Generator writes artifact pages
GeneratorReferences(inp) ==
  [i \in 1..Len(Generator_resource_infos(inp) \o Generator_example_infos(inp)) |->
     (Generator_resource_infos(inp) \o Generator_example_infos(inp))[i].resourceType
       \o <<"/">> \o (Generator_resource_infos(inp) \o Generator_example_infos(inp))[i].id]

\* the references of definition.resource of an ImplementationGuide document
DefinitionReferences(ig) ==
  [i \in 1..Len(ig.definition.resource) |-> ig.definition.resource[i].reference]

Occurrences(seq, x) == Cardinality({i \in 1..Len(seq) : seq[i] = x})

SameMultiset(s, t) ==
  /\ Len(s) = Len(t)
  /\ \A i \in 1..Len(s) : Occurrences(s, s[i]) = Occurrences(t, s[i])

\* C26: the Generator and the IG resource builder agree on the artifacts: after
\* cmd_generate has generated the guide and built ImplementationGuide.json, the
\* references of definition.resource are, as a multiset, those of the resources and
\* examples with artifact pages, and their number is resource_count + example_count.
C26_BuilderAgreesWithGenerator ==
  (res.op = "cmd_generate" /\ res.ig_ran /\ res.ig_success)
    => /\ SameMultiset(
            DefinitionReferences(out.files[res.result.output_path \o <<S_ImplementationGuide_json>>]),
            GeneratorReferences(input))
       /\ Len(out.files[res.result.output_path \o <<S_ImplementationGuide_json>>].definition.resource)
            = res.result.resource_count + res.result.example_count

\* cmd_generate has written the page of the example P/e, whose meta is a string, and
\* has built an ImplementationGuide.json without any definition.resource entry
C26_Witness ==
  /\ res.op = "cmd_generate" /\ res.ig_ran /\ res.ig_success
  /\ res.result.example_count = 1
  /\ IsFile(out, res.result.output_path \o <<S_Home, S_artifacts, S_examples, <<"e">> \o S_page_md>>)
  /\ \E n \in DOMAIN input.examples : Get(input.examples[n], "meta") = VStr(<<"x">>)
  /\ out.files[res.result.output_path \o <<S_ImplementationGuide_json>>].definition.resource = <<>>


(***************************************************************************)
(* C27                                                                     *)
(***************************************************************************)
\* the last path segments of the children of a page-tree node
ChildSegments(node) ==
  [j \in 1..Len(node.page) |->
     SubSeq(node.page[j].nameUrl, Len(node.nameUrl) + 2, Len(node.page[j].nameUrl))]

\* every directory of the tree with a TOC derived from the directory and a node among
\* nodes lists in its TOC the children of that node, in their order
TocsMatchNodes(tree, inp, nodes) ==
  \A t \in TocPaths(tree) :
    DirectoryDerived(inp, ParentOf(t))
      => \A i \in 1..Len(nodes) :
           nodes[i].nameUrl = SlashJoined(ParentOf(t))
             => Filenames(tree.files[t].entries) = ChildSegments(nodes[i])

\* C27: the TOC generator and the page-tree builder agree on every page directory: for
\* every directory under Home/ outside artifacts/ with a toc.yaml derived from the
\* directory and a node in the page tree of the ImplementationGuide.json that
\* cmd_generate builds, the filenames of the TOC are the last path segments of the
\* node's children, in the same order.
C27_TocMatchesPageTree ==
  (res.op = "cmd_generate" /\ res.ig_ran /\ res.ig_success)
    => TocsMatchNodes(
         SubTree(out, res.result.output_path), input,
         R4List(out.files[res.result.output_path \o <<S_ImplementationGuide_json>>].definition.page))

\* cmd_generate has built the page tree of a guide without a menu whose Home/ holds a
\* page directory and a directory that both sides skip: Home/toc.yaml lists two
\* entries or more, the TOC of the page directory has its node
C27_Witness ==
  /\ res.op = "cmd_generate" /\ res.ig_ran /\ res.ig_success /\ ~HasMenu(input)
  /\ IsFile(out, res.result.output_path \o <<S_Home, S_toc_yaml>>)
  /\ Len(out.files[res.result.output_path \o <<S_Home, S_toc_yaml>>].entries) >= 2
  /\ \E t \in TocPaths(SubTree(out, res.result.output_path)) :
       /\ Len(ParentOf(t)) = 2 /\ ParentOf(t)[2] # S_artifacts
       /\ \E i \in 1..Len(R4List(out.files[res.result.output_path \o <<S_ImplementationGuide_json>>].definition.page)) :
            R4List(out.files[res.result.output_path \o <<S_ImplementationGuide_json>>].definition.page)[i].nameUrl
              = SlashJoined(ParentOf(t))
  /\ \E d \in ChildDirs(out, res.result.output_path \o <<S_Home>>) : StartsWith(d, <<"_">>)


(***************************************************************************)
(* The input folder as the validator reads it from a scaffolded target:    *)
(* the folders by name, guide.yaml through load_yaml, the files of the     *)
(* style folders.                                                          *)
(***************************************************************************)
FolderPaths ==
  ("resources" :> S_resources) @@ ("examples" :> S_examples) @@ ("pages" :> S_pages)
  @@ ("styles" :> S_styles) @@ ("pagetemplates-artifacts" :> S_pagetemplates_artifacts)
  @@ ("images" :> S_images) @@ ("pagetemplates" :> S_pagetemplates)

\* the plain scalar of the last "key: value" line of a YAML text that starts with prefix:
\* a string, null when nothing follows the colon, absent without such a line.  The
\* values of the model are plain words, which YAML reads as strings.
YamlTopValue(lines, prefix) ==
  LET at == {i \in 1..Len(lines) : StartsWith(lines[i], prefix)}
      last == CHOOSE i \in at : \A j \in at : j <= i
      text == Strip(SubSeq(lines[last], Len(prefix) + 1, Len(lines[last])))
  IN IF at = {} THEN VAbsent ELSE IF text = <<>> THEN VNull ELSE VStr(text)

\* the items of the block mapping under "menu:": the lines indented by two spaces
YamlMenuItem(line) ==
  LET colon == CHOOSE i \in 1..Len(line) : line[i] = ":" /\ \A j \in 1..(i - 1) : line[j] # ":"
  IN MenuItem(Strip(SubSeq(line, 1, colon - 1)), VStr(Strip(SubSeq(line, colon + 1, Len(line)))))

YamlMenu(lines) ==
  LET Indented(l) == StartsWith(l, <<" ", " ">>) /\ \E i \in 1..Len(l) : l[i] = ":"
      items == SelectSeq(lines, Indented)
  IN IF \A i \in 1..Len(lines) : lines[i] # S_menu_line THEN VAbsent
     ELSE IF items = <<>> THEN VNull
     ELSE VMap([i \in 1..Len(items) |-> YamlMenuItem(items[i])])

\* load_yaml on the text of a scaffolded guide.yaml
LoadGuideYaml(lines) ==
  LET pairs == WithField(WithField(WithField(WithField({},
                 "title", YamlTopValue(lines, S_title_prefix)),
                 "url-key", YamlTopValue(lines, S_url_key_prefix)),
                 "style-name", YamlTopValue(lines, S_style_name_prefix)),
                 "menu", YamlMenu(lines))
  IN IF pairs = {} THEN DocNone ELSE DocMap(MapOf(pairs))

\* the input record of a scaffolded folder
ScaffoldedInput(fs) ==
  [exists |-> IsDir(fs, <<>>),
   folders |-> {n \in DOMAIN FolderPaths : IsDir(fs, <<FolderPaths[n]>>)},
   guide |-> IF IsFile(fs, <<S_guide_yaml>>)
             THEN File(TRUE, LoadGuideYaml(fs.files[<<S_guide_yaml>>].lines))
             ELSE File(FALSE, DocNone),
   variables |-> File(IsFile(fs, <<S_variables_yaml>>), DocNone),
   styles |-> [n \in ChildDirs(fs, <<S_styles>>) |-> ChildFiles(fs, <<S_styles, n>>)],
   pages |-> [i \in 1..Len(SortStrings(ChildFiles(fs, <<S_pages>>))) |->
                [path |-> <<SortStrings(ChildFiles(fs, <<S_pages>>))[i]>>, tag |-> "scaffold"]],
   resources |-> NoFiles,
   examples |-> NoFiles,
   templates |-> [n \in ChildFiles(fs, <<S_pagetemplates_artifacts>>) |-> <<>>],
   images |-> {},
   pagetemplates |-> ChildFiles(fs, <<S_pagetemplates>>)]

(***************************************************************************)
(* C28                                                                     *)
(***************************************************************************)
\* initialize() has scaffolded a target that was empty or did not exist
ScaffoldedFromEmpty ==
  /\ res.op = "initialize" /\ res.result.success
  /\ hist.before \in {EmptyFS, [dirs |-> {<<>>}, files |-> NoFiles]}

\* C28: a folder that initialize() scaffolds into an empty or non-existent target, from
\* the bundled templates or from the minimal defaults, is reported is_valid = true by
\* IGInputValidator.validate.
C28_ScaffoldIsValid ==
  ScaffoldedFromEmpty
    => /\ ~Validator_validate(ScaffoldedInput(out)).raised
       /\ Validator_validate(ScaffoldedInput(out)).report.is_valid

\* initialize() without bundled templates has scaffolded an empty target for the style
\* custom2: styles/custom2/ holds the three style files and the validator reports the
\* style folder custom22 as not found
C28_Witness ==
  /\ ScaffoldedFromEmpty /\ ~input.bundle.present
  /\ input.style_name = S_custom \o <<"2">>
  /\ {S_master_html, S_settings_style, S_style_css}
       \subseteq ChildFiles(out, <<S_styles, S_custom \o <<"2">>>>)
  /\ ~Validator_validate(ScaffoldedInput(out)).raised
  /\ ~Validator_validate(ScaffoldedInput(out)).report.is_valid
  /\ Validator_validate(ScaffoldedInput(out)).report.style_name = S_custom \o <<"2", "2">>


(***************************************************************************)
(* C29                                                                     *)
(***************************************************************************)
\* the toc.yaml files that _generate_toc_files writes: the root TOC, Home/toc.yaml and
\* those of the page directories, all outside Home/artifacts/
PageTocPaths(tree) ==
  {f \in TocPaths(tree) : ~IsPrefix(<<S_Home, S_artifacts>>, f)}

\* C29: after a successful generate(), toc_files_generated is the number of toc.yaml
\* files that _generate_toc_files wrote.
C29_TocCountIsFilesWritten ==
  (res.op = "generate" /\ ~res.raised)
    => res.result.toc_files_generated
         = Cardinality(PageTocPaths(SubTree(out, res.result.output_path)))

\* generate() has succeeded for a menu none of whose items matches: no Home/toc.yaml
\* was written, the root TOC was, and toc_files_generated counts both
C29_Witness ==
  /\ res.op = "generate" /\ ~res.raised /\ HasMenu(input)
  /\ ~IsFile(out, res.result.output_path \o <<S_Home, S_toc_yaml>>)
  /\ IsFile(out, res.result.output_path \o <<S_toc_yaml>>)
  /\ res.result.toc_files_generated
       = Cardinality(PageTocPaths(SubTree(out, res.result.output_path))) + 1


(***************************************************************************)
(* C30                                                                     *)
(***************************************************************************)
\* the statement as the specification words it: after a successful generate(), every
\* entry of every toc.yaml names a file or directory of the directory of that toc.yaml
TocEntriesExist(tree) ==
  \A t \in TocPaths(tree) :
    \A i \in 1..Len(tree.files[t].entries) :
      Exists(tree, ParentOf(t) \o <<tree.files[t].entries[i].filename>>)

TocEntriesResolve(tree, inp) ==
  \A t \in TocPaths(tree) :
    \A i \in 1..Len(tree.files[t].entries) :
      /\ Exists(tree, ParentOf(t) \o PathParts(tree.files[t].entries[i].filename))
      /\ ~(t = <<S_Home, S_toc_yaml>> /\ HasMenu(inp))
           => Exists(tree, ParentOf(t) \o <<tree.files[t].entries[i].filename>>)

====
